---------------------------- MODULE Spec2Model ----------------------------
(***************************************************************************)
(* Model of the website analyzer (src/website_analyzer): the rule-based    *)
(* scoring and heuristic-extraction engine.                                *)
(*                                                                         *)
(* The parsed document (soup), the HTTP response and the outcome of the    *)
(* TLS certificate read are inputs, chosen in Init.  Python dictionaries   *)
(* are functions whose DOMAIN is the set of keys written so far; lists are *)
(* sequences; None is the value NoneV.  Percentages that Python rounds to  *)
(* one decimal are kept in tenths (an integer).                            *)
(*                                                                         *)
(* WebsiteAnalyzer.analyze is modelled step by step (SpecAnalyze): the     *)
(* outcome of requests.get, of the DNS lookup and of the TLS connection    *)
(* are inputs; network and output record the network operations performed  *)
(* and the reports produced.  ReportGenerator is not part of the sources   *)
(* at hand: its two calls are modelled as appending to output.             *)
(***************************************************************************)
EXTENDS Integers, Sequences, FiniteSets, TLC

VARIABLES
    pc,             \* position in the method that is running
    url,            \* scheme of self.url: "http" or "https"
    response,       \* self.response: [headers |-> name -> value]
    tls,            \* outcome of the TLS connection made by check_ssl_tls
    soup,           \* self.soup: the parsed document
    security,       \* self.security == results["security"]
    accessibility,  \* self.accessibility == results["accessibility"]
    headings_arg,   \* argument of a direct call of check_heading_hierarchy
    hierarchy_ret,  \* its return values (helpers.py and analyze_website.py)
    performance,    \* self.performance == results["performance"]
    usability,      \* self.usability == results["usability"]
    results,        \* the other keys of self.results: url, date_analyzed, scores
    fetch,          \* outcome of requests.get in get_website
    dns,            \* outcome of socket.gethostbyname in check_dns_lookup_time
    analyzers,      \* the self.*_analyzer / report_generator fields not None
    network,        \* network operations performed so far, with their caller
    output,         \* reports printed or saved so far
    raised,         \* exception propagated out of the method, or NoneV
    colors_arg,     \* arguments of a direct call of calculate_contrast_ratio
    ratio_ret       \* its return value, or the exception it raised

vars == <<pc, url, response, tls, soup, security, accessibility,
          headings_arg, hierarchy_ret, performance, usability, results,
          fetch, dns, analyzers, network, output, raised, colors_arg,
          ratio_ret>>

-----------------------------------------------------------------------------
(* Bounds of the model *)

MaxFindings == 4        \* entries of ssl_issues / insecure_forms (score inputs)
MaxVectors == 6         \* entries of potential_xss_vectors / mixed_content.count
MaxElems == 6           \* elements of one kind in a document
MaxForms == 1           \* <form> elements in a document
MaxHeadings == 3        \* headings in a document
MaxImages == 2          \* <img> elements in a document
MaxFields == 2          \* input/select/textarea elements in a document
MaxTabs == 2            \* interactive elements in a document
MaxDecls == 2           \* colour declarations in a style block
MaxScripts == 2         \* inline scripts in a document
MaxStyles == 2          \* <style> blocks in a document
MaxPasswords == 2       \* password fields in a form

-----------------------------------------------------------------------------
(* Python helpers *)

NoneV == "<None>"

Min(a, b) == IF a < b THEN a ELSE b
Max(a, b) == IF a > b THEN a ELSE b

\* dict.get(key, default)
Get(d, key, default) == IF key \in DOMAIN d THEN d[key] ELSE default

\* d[key] = value
Put(d, key, value) == (key :> value) @@ d

\* truthiness of an attribute value: None and "" are falsy
Truthy(v) == v # NoneV /\ v # ""

\* lst[:n]
Take(lst, n) == SubSeq(lst, 1, Min(Len(lst), n))

\* [f(i) for i in 1..n] for the elements of a kind, named by their position
Elems(n) == [i \in 1..n |-> i]

\* round(num / den * 100, 1), in tenths
Percentage10(num, den) == (2 * num * 1000 + den) \div (2 * den)

RECURSIVE Flatten(_)
Flatten(seqs) ==
    IF seqs = <<>> THEN <<>> ELSE Head(seqs) \o Flatten(Tail(seqs))

\* len([x for x in lst if test(x)]), given the list of the test's results
RECURSIVE CountTrue(_)
CountTrue(flags) ==
    IF flags = <<>> THEN 0
    ELSE (IF Head(flags) THEN 1 ELSE 0) + CountTrue(Tail(flags))

\* all sequences over S of length at most n
SeqsUpTo(S, n) == UNION {[1..k -> S] : k \in 0..n}

-----------------------------------------------------------------------------
(* SecurityAnalyzer *)

SecurityHeaderNames ==
    <<"Strict-Transport-Security", "Content-Security-Policy",
      "X-Content-Type-Options", "X-Frame-Options", "X-XSS-Protection",
      "Referrer-Policy", "Permissions-Policy">>

RiskyAttrs ==
    <<"onclick", "onload", "onmouseover", "onerror", "onkeyup", "onsubmit">>

MixedPairs ==
    <<[tag |-> "img", attr |-> "src"], [tag |-> "script", attr |-> "src"],
      [tag |-> "link", attr |-> "href"], [tag |-> "iframe", attr |-> "src"],
      [tag |-> "object", attr |-> "data"], [tag |-> "source", attr |-> "src"],
      [tag |-> "audio", attr |-> "src"], [tag |-> "video", attr |-> "src"]>>

XssCap == 5
MixedCap == 3

CheckSecurityHeaders(sec, headers) ==
    LET security_headers ==
            [i \in 1..Len(SecurityHeaderNames) |->
                IF SecurityHeaderNames[i] = "Permissions-Policy"
                THEN Get(headers, "Permissions-Policy",
                         Get(headers, "Feature-Policy", "Missing"))
                ELSE Get(headers, SecurityHeaderNames[i], "Missing")]
        missing_headers ==
            CountTrue([i \in 1..Len(security_headers) |->
                            security_headers[i] = "Missing"])
        present_headers == Len(security_headers) - missing_headers
    IN  Put(Put(Put(Put(sec,
            "headers", security_headers),
            "missing_security_headers", missing_headers),
            "present_security_headers", present_headers),
            "security_headers_percentage",
                Percentage10(present_headers, Len(security_headers)))

\* check_ssl_tls that records no issue for a page without HTTPS
CheckSslTls_NoIssueOnHttp(sec, scheme, conn) ==
    LET https == scheme = "https"
        s1 == Put(sec, "https_enabled", https)
    IN  IF ~https
        THEN Put(s1, "ssl_issues", <<>>)
        ELSE IF ~conn.ok
        THEN Put(Put(s1, "ssl_error", "error"),
                 "ssl_issues", <<"Error analyzing SSL">>)
        ELSE Put(Put(Put(Put(Put(s1,
                 "ssl_certificate", "cert_info"),
                 "ssl_days_to_expiry", conn.days),
                 "ssl_expires_soon", conn.days < 30),
                 "ssl_protocol_version", "TLS"),
                 "ssl_issues",
                    IF conn.days < 30 THEN <<"Certificate expires soon">>
                    ELSE <<>>)

\* check_ssl_tls that takes a failed TLS connection for a page without HTTPS
CheckSslTls_ErrorMeansNoHttps(sec, scheme, conn) ==
    LET https == scheme = "https"
        s1 == Put(sec, "https_enabled", https)
    IN  IF ~https
        THEN Put(s1, "ssl_issues", <<"HTTPS not enabled">>)
        ELSE IF ~conn.ok
        THEN Put(Put(Put(s1, "https_enabled", FALSE), "ssl_error", "error"),
                 "ssl_issues", <<"HTTPS not enabled">>)
        ELSE Put(Put(Put(Put(Put(s1,
                 "ssl_certificate", "cert_info"),
                 "ssl_days_to_expiry", conn.days),
                 "ssl_expires_soon", conn.days < 30),
                 "ssl_protocol_version", "TLS"),
                 "ssl_issues",
                    IF conn.days < 30 THEN <<"Certificate expires soon">>
                    ELSE <<>>)

CheckSslTls(sec, scheme, conn) ==
    LET https == scheme = "https"
        s1 == Put(sec, "https_enabled", https)
    IN  IF ~https
        THEN Put(s1, "ssl_issues", <<"HTTPS not enabled">>)
        ELSE IF ~conn.ok
        THEN Put(Put(s1, "ssl_error", "error"),
                 "ssl_issues", <<"Error analyzing SSL">>)
        ELSE Put(Put(Put(Put(Put(s1,
                 "ssl_certificate", "cert_info"),
                 "ssl_days_to_expiry", conn.days),
                 "ssl_expires_soon", conn.days < 30),
                 "ssl_protocol_version", "TLS"),
                 "ssl_issues",
                    IF conn.days < 30 THEN <<"Certificate expires soon">>
                    ELSE <<>>)

\* check_content_security that lists every javascript: anchor
CheckContentSecurity_UncappedLinks(sec, doc) ==
    LET by_attr ==
            [a \in 1..Len(RiskyAttrs) |->
                [i \in 1..Len(Take(Elems(doc.handlers[a]), XssCap)) |->
                    [attribute |-> RiskyAttrs[a], element |-> i]]]
        js_links ==
            [i \in 1..Len(Elems(doc.js_links)) |->
                [attribute |-> "href", element |-> i]]
        potential_xss_vectors == Flatten(by_attr) \o js_links
    IN  Put(Put(Put(Put(sec,
            "inline_scripts", Len(doc.inline_scripts)),
            "has_unsafe_inline", CountTrue(doc.inline_scripts) > 0),
            "potential_xss_vectors", potential_xss_vectors),
            "xss_risk", Len(potential_xss_vectors) > 0)

CheckContentSecurity(sec, doc) ==
    LET by_attr ==
            [a \in 1..Len(RiskyAttrs) |->
                [i \in 1..Len(Take(Elems(doc.handlers[a]), XssCap)) |->
                    [attribute |-> RiskyAttrs[a], element |-> i]]]
        js_links ==
            [i \in 1..Len(Take(Elems(doc.js_links), XssCap)) |->
                [attribute |-> "href", element |-> i]]
        potential_xss_vectors == Flatten(by_attr) \o js_links
    IN  Put(Put(Put(Put(sec,
            "inline_scripts", Len(doc.inline_scripts)),
            "has_unsafe_inline", CountTrue(doc.inline_scripts) > 0),
            "potential_xss_vectors", potential_xss_vectors),
            "xss_risk", Len(potential_xss_vectors) > 0)

CheckMixedContent(sec, doc) ==
    IF ~Get(sec, "https_enabled", FALSE)
    THEN Put(sec, "mixed_content", [status |-> "N/A - not using HTTPS"])
    ELSE
    LET by_pair ==
            [p \in 1..Len(MixedPairs) |->
                [i \in 1..Len(Take(Elems(doc.mixed[p]), MixedCap)) |->
                    [tag |-> MixedPairs[p].tag,
                     attribute |-> MixedPairs[p].attr, element |-> i]]]
        by_style ==
            [s \in 1..Len(doc.styles) |->
                [i \in 1..Len(Take(Elems(doc.styles[s].http_urls), MixedCap)) |->
                    [tag |-> "style", attribute |-> "url()", element |-> i]]]
        mixed_content == Flatten(by_pair) \o Flatten(by_style)
    IN  Put(sec, "mixed_content",
            [status |-> IF mixed_content # <<>> THEN "Issues found"
                        ELSE "No issues",
             items |-> mixed_content,
             count |-> Len(mixed_content)])

\* the loop body that lets a form without a CSRF field pass
FormIssues_CsrfNotRequired(form, https_enabled) ==
    LET action_issue ==
            IF form.action = "http" THEN <<"Form submits to HTTP URL">>
            ELSE IF form.action = "" /\ ~https_enabled
            THEN <<"Form on non-HTTPS page without specific action">>
            ELSE <<>>
        csrf_issue ==
            <<>>
        all_off == form.passwords # <<>>
                   /\ CountTrue(form.passwords) = Len(form.passwords)
        autocomplete_issue ==
            IF form.autocomplete_off \/ all_off THEN <<>>
            ELSE IF form.passwords # <<>>
            THEN <<"Password fields without autocomplete=off">>
            ELSE <<>>
    IN  [with_https |-> action_issue = <<>>,
         with_csrf |-> form.csrf,
         with_autocomplete_off |-> form.autocomplete_off \/ all_off,
         issues |-> action_issue \o csrf_issue \o autocomplete_issue]

\* the body of the loop of check_form_security for one form
FormIssues(form, https_enabled) ==
    LET action_issue ==
            IF form.action = "http" THEN <<"Form submits to HTTP URL">>
            ELSE IF form.action = "" /\ ~https_enabled
            THEN <<"Form on non-HTTPS page without specific action">>
            ELSE <<>>
        csrf_issue ==
            IF form.csrf THEN <<>> ELSE <<"No CSRF protection detected">>
        all_off == form.passwords # <<>>
                   /\ CountTrue(form.passwords) = Len(form.passwords)
        autocomplete_issue ==
            IF form.autocomplete_off \/ all_off THEN <<>>
            ELSE IF form.passwords # <<>>
            THEN <<"Password fields without autocomplete=off">>
            ELSE <<>>
    IN  [with_https |-> action_issue = <<>>,
         with_csrf |-> form.csrf,
         with_autocomplete_off |-> form.autocomplete_off \/ all_off,
         issues |-> action_issue \o csrf_issue \o autocomplete_issue]

CheckFormSecurity(sec, doc) ==
    LET https_enabled == Get(sec, "https_enabled", FALSE)
        checked == [i \in 1..Len(doc.forms) |->
                        FormIssues(doc.forms[i], https_enabled)]
        Insecure(c) == c.issues # <<>>
        descs == [i \in 1..Len(doc.forms) |->
                    [action |-> doc.forms[i].action, method |-> "GET",
                     issues |-> checked[i].issues]]
    IN  Put(sec, "forms",
            [total |-> Len(doc.forms),
             with_csrf_protection |->
                CountTrue([i \in 1..Len(checked) |-> checked[i].with_csrf]),
             with_https |->
                CountTrue([i \in 1..Len(checked) |-> checked[i].with_https]),
             with_autocomplete_off |->
                CountTrue([i \in 1..Len(checked) |->
                                checked[i].with_autocomplete_off]),
             insecure_forms |-> SelectSeq(descs, Insecure)])


\* the running score and the deductions list of calculate_security_score,
\* before the result is stored
RawSecurityScore_NoHeaderCap(sec) ==
    LET missing_headers == Get(sec, "missing_security_headers", 0)
        ssl_issues == Get(sec, "ssl_issues", <<>>)
        xss_vectors == Len(Get(sec, "potential_xss_vectors", <<>>))
        mixed_content_count == Get(Get(sec, "mixed_content", <<>>), "count", 0)
        insecure_forms ==
            Len(Get(Get(sec, "forms", <<>>), "insecure_forms", <<>>))
    IN  100 - missing_headers * 10
            - (IF ~Get(sec, "https_enabled", FALSE) THEN 50 ELSE 0)
            - Min(Len(ssl_issues) * 10, 30)
            - Min(xss_vectors * 5, 25)
            - Min(mixed_content_count * 3, 15)
            - Min(insecure_forms * 10, 30)

RawSecurityScore(sec) ==
    LET missing_headers == Get(sec, "missing_security_headers", 0)
        header_deduction == Min(missing_headers * 10, 40)
        score1 == IF missing_headers > 0 THEN 100 - header_deduction ELSE 100
        score2 == IF ~Get(sec, "https_enabled", FALSE)
                  THEN score1 - 50 ELSE score1
        ssl_issues == Get(sec, "ssl_issues", <<>>)
        ssl_deduction == Min(Len(ssl_issues) * 10, 30)
        score3 == IF ssl_issues # <<>> THEN score2 - ssl_deduction ELSE score2
        xss_vectors == Len(Get(sec, "potential_xss_vectors", <<>>))
        xss_deduction == Min(xss_vectors * 5, 25)
        score4 == IF xss_vectors > 0 THEN score3 - xss_deduction ELSE score3
        mixed_content_count == Get(Get(sec, "mixed_content", <<>>), "count", 0)
        mixed_deduction == Min(mixed_content_count * 3, 15)
        score5 == IF mixed_content_count > 0
                  THEN score4 - mixed_deduction ELSE score4
        insecure_forms ==
            Len(Get(Get(sec, "forms", <<>>), "insecure_forms", <<>>))
        form_deduction == Min(insecure_forms * 10, 30)
    IN  IF insecure_forms > 0 THEN score5 - form_deduction ELSE score5

\* deductions: one entry per category that deducted
SecurityDeductions(sec) ==
    LET missing_headers == Get(sec, "missing_security_headers", 0)
        ssl_issues == Get(sec, "ssl_issues", <<>>)
        xss_vectors == Len(Get(sec, "potential_xss_vectors", <<>>))
        mixed_content_count == Get(Get(sec, "mixed_content", <<>>), "count", 0)
        insecure_forms ==
            Len(Get(Get(sec, "forms", <<>>), "insecure_forms", <<>>))
    IN  (IF missing_headers > 0
         THEN <<[what |-> "Missing security headers",
                 points |-> Min(missing_headers * 10, 40)]>> ELSE <<>>)
        \o (IF ~Get(sec, "https_enabled", FALSE)
            THEN <<[what |-> "No HTTPS", points |-> 50]>> ELSE <<>>)
        \o (IF ssl_issues # <<>>
            THEN <<[what |-> "SSL issues",
                    points |-> Min(Len(ssl_issues) * 10, 30)]>> ELSE <<>>)
        \o (IF xss_vectors > 0
            THEN <<[what |-> "Potential XSS vectors",
                    points |-> Min(xss_vectors * 5, 25)]>> ELSE <<>>)
        \o (IF mixed_content_count > 0
            THEN <<[what |-> "Mixed content",
                    points |-> Min(mixed_content_count * 3, 15)]>> ELSE <<>>)
        \o (IF insecure_forms > 0
            THEN <<[what |-> "Insecure forms",
                    points |-> Min(insecure_forms * 10, 30)]>> ELSE <<>>)

\* the rating chain, with the first band tested by > instead of >=
SecurityRating_StrictBand(score) ==
    IF score > 90 THEN "Excellent"
    ELSE IF score > 75 THEN "Good"
    ELSE IF score > 50 THEN "Fair"
    ELSE IF score > 25 THEN "Poor"
    ELSE "Very Poor"

SecurityRating(score) ==
    IF score >= 90 THEN "Excellent"
    ELSE IF score >= 75 THEN "Good"
    ELSE IF score >= 50 THEN "Fair"
    ELSE IF score >= 25 THEN "Poor"
    ELSE "Very Poor"

\* calculate_security_score without the floor at 0
CalculateSecurityScore_NoFloor(sec) ==
    LET score == RawSecurityScore(sec)
    IN  Put(Put(Put(Put(sec,
            "score", score),
            "max_score", 100),
            "deductions", SecurityDeductions(sec)),
            "rating", SecurityRating(score))

CalculateSecurityScore(sec) ==
    LET score == RawSecurityScore(sec)
    IN  Put(Put(Put(Put(sec,
            "score", Max(0, score)),
            "max_score", 100),
            "deductions", SecurityDeductions(sec)),
            "rating", SecurityRating(score))

-----------------------------------------------------------------------------
(* HeadingHierarchyChecker *)

\* for i in range(len(levels) - 1), from index i on (1-based)
RECURSIVE SkipsLevelFrom(_, _)
SkipsLevelFrom(levels, i) ==
    IF i > Len(levels) - 1 THEN FALSE
    ELSE IF levels[i + 1] - levels[i] > 1 THEN TRUE
    ELSE SkipsLevelFrom(levels, i + 1)

\* the loop with the comparison the wrong way round
CheckHeadingHierarchy_AnyJump(headings) ==
    LET levels == [i \in 1..Len(headings) |-> headings[i][1]]
    IN  IF headings = <<>> THEN FALSE
        ELSE IF 1 \notin {levels[i] : i \in 1..Len(levels)} THEN TRUE
        ELSE \E i \in 1..(Len(levels) - 1) : levels[i + 1] - levels[i] >= 1

\* helpers.check_heading_hierarchy; headings are <<level, text>> pairs
CheckHeadingHierarchy(headings) ==
    LET levels == [i \in 1..Len(headings) |-> headings[i][1]]
    IN  IF headings = <<>> THEN FALSE
        ELSE IF 1 \notin {levels[i] : i \in 1..Len(levels)} THEN TRUE
        ELSE SkipsLevelFrom(levels, 1)

\* WebsiteAnalyzer.check_heading_hierarchy of the single-file variant
LegacyCheckHeadingHierarchy(headings) ==
    LET levels == [i \in 1..Len(headings) |-> headings[i][1]]
    IN  IF headings = <<>> THEN FALSE
        ELSE IF 1 \notin {levels[i] : i \in 1..Len(levels)} THEN TRUE
        ELSE SkipsLevelFrom(levels, 1)

-----------------------------------------------------------------------------
(* ColorModel and CssColorExtractor *)

Palette == {"#000000", "#ffffff", "#777777"}

\* parse_color raises ValueError: '#' followed by fewer than six digits
ParseColorRaises(color) == color = "#fff"

\* get_luminance(parse_color(color)) in millionths, for the six-digit greys
\* of the model; a string that is neither '#...' nor rgb(...) is parsed as
\* (0, 0, 0)
Luminance(color) ==
    CASE color = "#000000" -> 0
      [] color = "#111111" -> 5605
      [] color = "#222222" -> 15996
      [] color = "#333333" -> 33105
      [] color = "#777777" -> 184475
      [] color = "#cccccc" -> 603827
      [] color = "#dddddd" -> 723055
      [] color = "#eeeeee" -> 854993
      [] color = "#ffffff" -> 1000000
      [] OTHER -> 0

\* calculate_contrast_ratio(color1, color2) as the fraction <<num, den>>
ContrastRatio(color1, color2) ==
    LET l1 == Luminance(color1)
        l2 == Luminance(color2)
    IN  IF l1 > l2 THEN <<l1 + 50000, l2 + 50000>>
        ELSE <<l2 + 50000, l1 + 50000>>

\* round(ratio, 2), in hundredths
Round2(ratio) == (200 * ratio[1] + ratio[2]) \div (2 * ratio[2])

\* extract_css_colors over the declarations of the style blocks: a
\* declaration is the rule selector { prop: value }; the background patterns
\* match the properties background and background-color, the text pattern
\* matches every property whose name ends in "color", and the link patterns
\* match such a property in a rule whose selector is a.  The values are
\* those of list(set(...)), whose order is not fixed.
ExtractCssColors(decls) ==
    LET Decls == {decls[i] : i \in 1..Len(decls)}
    IN  [background |->
            {d.value : d \in {e \in Decls :
                e.prop \in {"background", "background-color"}
                /\ e.value \notin {"transparent", "inherit", "initial"}}},
         text |->
            {d.value : d \in {e \in Decls :
                e.prop \in {"color", "background-color"}
                /\ e.value \notin {"inherit", "initial"}}},
         link |->
            {d.value : d \in {e \in Decls :
                e.selector = "a"
                /\ e.prop \in {"color", "background-color"}
                /\ e.value \notin {"inherit", "initial"}}}]

\* the lists list(set(colors)) can be
Orderings(S) ==
    {order \in [1..Cardinality(S) -> S] :
        \A i, j \in 1..Cardinality(S) : order[i] = order[j] => i = j}

-----------------------------------------------------------------------------
(* AccessibilityAnalyzer *)

\* self.accessibility[section][key] = value
PutIn(acc, section, key, value) ==
    [acc EXCEPT ![section] = Put(acc[section], key, value)]

\* AccessibilityAnalyzer.__init__: results["accessibility"] was {}
AccessibilityInit ==
    [wcag_compliance |-> <<>>, semantic_structure |-> <<>>,
     keyboard_navigation |-> <<>>, screen_reader |-> <<>>,
     multimedia |-> <<>>, forms |-> <<>>, color_contrast |-> <<>>,
     text_content |-> <<>>]

\* soup.find_all(f'h{i}'): the headings of level i, in document order
HeadingsOfLevel(doc, i) ==
    LET IsLevel(h) == h[1] = i
    IN  SelectSeq(doc.headings, IsLevel)

\* all_headings of check_semantic_structure
AllHeadings(doc) ==
    Flatten([i \in 1..6 |-> HeadingsOfLevel(doc, i)])

\* the landmark tallies and dir_attribute, which no other step reads, are
\* left out
CheckSemanticStructure(acc, doc) ==
    LET all_headings == AllHeadings(doc)
        headings_analysis ==
            [i \in 1..6 |->
                [count |-> Len(HeadingsOfLevel(doc, i)),
                 texts |-> Take([k \in 1..Len(HeadingsOfLevel(doc, i)) |->
                                    HeadingsOfLevel(doc, i)[k][2]], 5)]]
        a1 == PutIn(acc, "semantic_structure", "lang_attribute",
                    IF doc.lang = NoneV THEN "Missing" ELSE doc.lang)
        a2 == PutIn(a1, "semantic_structure", "headings", headings_analysis)
        a3 == PutIn(a2, "semantic_structure", "heading_hierarchy_issues",
                    CheckHeadingHierarchy(all_headings))
    IN  PutIn(a3, "semantic_structure", "empty_headings",
              CountTrue([k \in 1..Len(all_headings) |->
                            all_headings[k][2] = ""]))

\* int(tabindex) for the tabindex values of the model; "x" raises ValueError
IsInteger(tabindex) == tabindex \in {"0", "-1", "2"}
IntValue(tabindex) ==
    CASE tabindex = "0" -> 0 [] tabindex = "-1" -> -1 [] tabindex = "2" -> 2

\* one round of the loop of check_keyboard_navigation
TabindexIssue(tabindex) ==
    IF ~Truthy(tabindex) THEN <<>>
    ELSE IF ~IsInteger(tabindex) THEN <<[issue |-> "invalid", of |-> tabindex]>>
    ELSE IF IntValue(tabindex) > 0
    THEN <<[issue |-> "positive", of |-> tabindex]>>
    ELSE <<>>

\* skip_links and focus_indicators, which no other step reads, are left out
CheckKeyboardNavigation(acc, doc) ==
    LET tabindex_issues ==
            Flatten([i \in 1..Len(doc.tabindexes) |->
                        TabindexIssue(doc.tabindexes[i])])
    IN  PutIn(PutIn(acc,
            "keyboard_navigation", "total_interactive_elements",
                Len(doc.tabindexes)),
            "keyboard_navigation", "tabindex_issues", tabindex_issues)

\* images_analysis with with_alt counting the images whose alt is truthy
ImagesAnalysis_TruthyAlt(images) ==
    [total |-> Len(images),
     with_alt |-> CountTrue([i \in 1..Len(images) |-> Truthy(images[i].alt)]),
     with_empty_alt |->
        CountTrue([i \in 1..Len(images) |-> images[i].alt = ""]),
     without_alt |->
        CountTrue([i \in 1..Len(images) |-> images[i].alt = NoneV]),
     decorative_properly_marked |->
        CountTrue([i \in 1..Len(images) |->
            images[i].alt = "" /\ images[i].role = "presentation"])]

\* images_analysis of check_screen_reader_support
ImagesAnalysis(images) ==
    [total |-> Len(images),
     with_alt |->
        CountTrue([i \in 1..Len(images) |-> images[i].alt # NoneV]),
     with_empty_alt |->
        CountTrue([i \in 1..Len(images) |-> images[i].alt = ""]),
     without_alt |->
        CountTrue([i \in 1..Len(images) |-> images[i].alt = NoneV]),
     decorative_properly_marked |->
        CountTrue([i \in 1..Len(images) |->
            images[i].alt = "" /\ images[i].role = "presentation"])]

\* the aria-* and sr-only tallies, which no other step reads, are left out
CheckScreenReaderSupport(acc, doc) ==
    PutIn(acc, "screen_reader", "images", ImagesAnalysis(doc.images))

\* the loop of check_forms with the ARIA test as an elif of the label test
RECURSIVE InputsWithLabels_OncePerField(_, _)
InputsWithLabels_OncePerField(inputs, labels_for) ==
    IF inputs = <<>> THEN 0
    ELSE LET input_elem == Head(inputs)
             by_label == Truthy(input_elem.id) /\ input_elem.id \in labels_for
             by_aria == Truthy(input_elem.aria_label)
                        \/ Truthy(input_elem.aria_labelledby)
         IN  (IF by_label \/ by_aria THEN 1 ELSE 0)
             + InputsWithLabels_OncePerField(Tail(inputs), labels_for)

\* the loop of check_forms: form_analysis["inputs_with_labels"] after it
RECURSIVE InputsWithLabels(_, _)
InputsWithLabels(inputs, labels_for) ==
    IF inputs = <<>> THEN 0
    ELSE LET input_elem == Head(inputs)
             by_label == Truthy(input_elem.id) /\ input_elem.id \in labels_for
             by_aria == Truthy(input_elem.aria_label)
                        \/ Truthy(input_elem.aria_labelledby)
         IN  (IF by_label THEN 1 ELSE 0) + (IF by_aria THEN 1 ELSE 0)
             + InputsWithLabels(Tail(inputs), labels_for)

\* the fields of the model carry neither placeholder nor required, and the
\* documents hold no fieldset or legend
CheckForms(acc, doc) ==
    [acc EXCEPT !["forms"] =
        [total_forms |-> Len(doc.forms),
         forms_with_labels |-> 0,
         total_inputs |-> Len(doc.fields),
         inputs_with_labels |-> InputsWithLabels(doc.fields, doc.labels_for),
         inputs_with_placeholders |-> 0,
         required_fields |-> 0,
         fieldsets |-> 0,
         legends |-> 0] @@ acc["forms"]]

\* the documents of the model hold no video, audio or iframe
CheckMultimedia(acc, doc) ==
    [acc EXCEPT !["multimedia"] =
        [videos |-> [total |-> 0, with_captions |-> 0, with_controls |-> 0,
                     autoplay |-> 0],
         audios |-> [total |-> 0, with_controls |-> 0, autoplay |-> 0],
         iframes |-> [total |-> 0, with_title |-> 0, with_aria_label |-> 0]]]

\* the documents of the model hold no paragraph, list, table or quote; the
\* text length is not modelled
CheckTextContent(acc, doc) ==
    [acc EXCEPT !["text_content"] =
        [paragraphs |-> 0,
         lists |-> [ul |-> 0, ol |-> 0, dl |-> 0],
         tables |-> [total |-> 0, with_headers |-> 0, with_caption |-> 0,
                     with_summary |-> 0, data_tables |-> 0,
                     layout_tables |-> 0],
         abbreviations |-> 0,
         quotes |-> 0]]

\* css_content of check_color_contrast: the style blocks, concatenated
CssContent(doc) ==
    Flatten([s \in 1..Len(doc.styles) |-> doc.styles[s].decls])

\* check_color_contrast that reports a pair it cannot evaluate as an issue
CheckColorContrast_RaisedIsIssue(acc, background, text) ==
    LET pairs ==
            Flatten([b \in 1..Len(background) |->
                [t \in 1..Len(text) |->
                    [background |-> background[b], text |-> text[t],
                     raised |-> ParseColorRaises(background[b])
                                \/ ParseColorRaises(text[t]),
                     ratio |-> Round2(ContrastRatio(background[b], text[t])),
                     low |-> LET r == ContrastRatio(background[b], text[t])
                             IN  10 * r[1] < 45 * r[2]]]])
        IsIssue(pair) == pair.raised \/ pair.low
        IsCompliant(pair) == ~pair.raised /\ ~pair.low
        contrast_issues == SelectSeq(pairs, IsIssue)
        compliant_pairs == SelectSeq(pairs, IsCompliant)
    IN  [acc EXCEPT !["color_contrast"] =
            [issues |-> Take(contrast_issues, 10),
             compliant_pairs |-> Take(compliant_pairs, 10),
             background_colors |-> Take(background, 20),
             text_colors |-> Take(text, 20),
             has_issues |-> Len(contrast_issues) > 0] @@ acc["color_contrast"]]

\* check_color_contrast, given colors["background"] and colors["text"]; a
\* pair for which calculate_contrast_ratio raises is passed over
CheckColorContrast(acc, background, text) ==
    LET pairs ==
            Flatten([b \in 1..Len(background) |->
                [t \in 1..Len(text) |->
                    [background |-> background[b], text |-> text[t],
                     raised |-> ParseColorRaises(background[b])
                                \/ ParseColorRaises(text[t]),
                     ratio |-> Round2(ContrastRatio(background[b], text[t])),
                     low |-> LET r == ContrastRatio(background[b], text[t])
                             IN  10 * r[1] < 45 * r[2]]]])
        IsIssue(pair) == ~pair.raised /\ pair.low
        IsCompliant(pair) == ~pair.raised /\ ~pair.low
        contrast_issues == SelectSeq(pairs, IsIssue)
        compliant_pairs == SelectSeq(pairs, IsCompliant)
    IN  [acc EXCEPT !["color_contrast"] =
            [issues |-> Take(contrast_issues, 10),
             compliant_pairs |-> Take(compliant_pairs, 10),
             background_colors |-> Take(background, 20),
             text_colors |-> Take(text, 20),
             has_issues |-> Len(contrast_issues) > 0] @@ acc["color_contrast"]]

\* check_wcag_compliance with Level AA counted from 0 instead of from the
\* Level A score
CheckWcagCompliance_AAFromZero(acc) ==
    LET forms == acc["forms"]
        level_a_total == 10
        level_a_score ==
            (IF acc["semantic_structure"]["lang_attribute"] # "Missing"
             THEN 1 ELSE 0)
            + (IF acc["screen_reader"]["images"].without_alt = 0
               THEN 1 ELSE 0)
            + (IF ~acc["semantic_structure"]["heading_hierarchy_issues"]
               THEN 1 ELSE 0)
            + (IF forms["total_inputs"] > 0
                  /\ forms["inputs_with_labels"] = forms["total_inputs"]
               THEN 1 ELSE 0)
            + 6
        level_aa_total == 15
        level_aa_score ==
            0
            + (IF ~Get(acc["color_contrast"], "has_issues", TRUE)
               THEN 1 ELSE 0)
            + (IF Len(acc["keyboard_navigation"]["tabindex_issues"]) = 0
               THEN 1 ELSE 0)
            + 2
    IN  PutIn(PutIn(acc,
            "wcag_compliance", "level_a",
                [score |-> level_a_score,
                 total |-> level_a_total,
                 percentage |-> Percentage10(level_a_score, level_a_total),
                 passed |-> 10 * level_a_score >= 8 * level_a_total]),
            "wcag_compliance", "level_aa",
                [score |-> level_aa_score,
                 total |-> level_aa_total,
                 percentage |-> Percentage10(level_aa_score, level_aa_total),
                 passed |-> 10 * level_aa_score >= 8 * level_aa_total])

\* check_wcag_compliance; score >= total * 0.8 is compared in tenths
\* check_wcag_compliance with Level AA passed from 70% of its total
CheckWcagCompliance_AAPassedAt70(acc) ==
    LET forms == acc["forms"]
        level_a_total == 10
        level_a_score ==
            (IF acc["semantic_structure"]["lang_attribute"] # "Missing"
             THEN 1 ELSE 0)
            + (IF acc["screen_reader"]["images"].without_alt = 0
               THEN 1 ELSE 0)
            + (IF ~acc["semantic_structure"]["heading_hierarchy_issues"]
               THEN 1 ELSE 0)
            + (IF forms["total_inputs"] > 0
                  /\ forms["inputs_with_labels"] = forms["total_inputs"]
               THEN 1 ELSE 0)
            + 6
        level_aa_total == 15
        level_aa_score ==
            level_a_score
            + (IF ~Get(acc["color_contrast"], "has_issues", TRUE)
               THEN 1 ELSE 0)
            + (IF Len(acc["keyboard_navigation"]["tabindex_issues"]) = 0
               THEN 1 ELSE 0)
            + 2
    IN  PutIn(PutIn(acc,
            "wcag_compliance", "level_a",
                [score |-> level_a_score,
                 total |-> level_a_total,
                 percentage |-> Percentage10(level_a_score, level_a_total),
                 passed |-> 10 * level_a_score >= 8 * level_a_total]),
            "wcag_compliance", "level_aa",
                [score |-> level_aa_score,
                 total |-> level_aa_total,
                 percentage |-> Percentage10(level_aa_score, level_aa_total),
                 passed |-> 10 * level_aa_score >= 7 * level_aa_total])

CheckWcagCompliance(acc) ==
    LET forms == acc["forms"]
        level_a_total == 10
        level_a_score ==
            (IF acc["semantic_structure"]["lang_attribute"] # "Missing"
             THEN 1 ELSE 0)
            + (IF acc["screen_reader"]["images"].without_alt = 0
               THEN 1 ELSE 0)
            + (IF ~acc["semantic_structure"]["heading_hierarchy_issues"]
               THEN 1 ELSE 0)
            + (IF forms["total_inputs"] > 0
                  /\ forms["inputs_with_labels"] = forms["total_inputs"]
               THEN 1 ELSE 0)
            + 6
        level_aa_total == 15
        level_aa_score ==
            level_a_score
            + (IF ~Get(acc["color_contrast"], "has_issues", TRUE)
               THEN 1 ELSE 0)
            + (IF Len(acc["keyboard_navigation"]["tabindex_issues"]) = 0
               THEN 1 ELSE 0)
            + 2
    IN  PutIn(PutIn(acc,
            "wcag_compliance", "level_a",
                [score |-> level_a_score,
                 total |-> level_a_total,
                 percentage |-> Percentage10(level_a_score, level_a_total),
                 passed |-> 10 * level_a_score >= 8 * level_a_total]),
            "wcag_compliance", "level_aa",
                [score |-> level_aa_score,
                 total |-> level_aa_total,
                 percentage |-> Percentage10(level_aa_score, level_aa_total),
                 passed |-> 10 * level_aa_score >= 8 * level_aa_total])

-----------------------------------------------------------------------------
(* WebsiteAnalyzer: the shared result and the score aggregation *)

\* Times are kept in hundredths of a second (total_load_time is rounded to
\* two decimals), sizes in thousandths of a megabyte (response_size_mb is
\* rounded to three decimals) and in hundredths of a kilobyte; percentages
\* and scores["accessibility"], scores["overall"] in tenths.

\* round(num / den, n) on an exact quotient: ties go to the even digit
RoundHalfEven(num, den) ==
    LET q == num \div den
        r == num % den
    IN  IF 2 * r < den THEN q
        ELSE IF 2 * r > den THEN q + 1
        ELSE IF q % 2 = 0 THEN q ELSE q + 1

\* safe_get(dictionary, path, default); every value met on the paths the
\* aggregator reads is a dictionary until the last key
RECURSIVE SafeGet(_, _, _)
SafeGet(dictionary, path, default) ==
    IF path = <<>> THEN dictionary
    ELSE IF Head(path) \in DOMAIN dictionary
    THEN SafeGet(dictionary[Head(path)], Tail(path), default)
    ELSE default

\* self.results["performance"] as WebsiteAnalyzer.__init__ leaves it
PerformanceInit ==
    [loading |-> <<>>, resources |-> <<>>, seo |-> <<>>, mobile |-> <<>>,
     technical |-> <<>>]

\* the keys of self.results that are not an analyzer's namespace
ResultsInit == [url |-> "url", date_analyzed |-> "now"]

\* self.results, put together from the namespaces
SelfResults(acc, perf, sec, usab, rest) ==
    [accessibility |-> acc, performance |-> perf, security |-> sec,
     usability |-> usab] @@ rest

\* _calculate_scores whose deductions add up over the thresholds passed
CalculateScores_Stacking(res) ==
    LET load_time ==
            SafeGet(res, <<"performance", "loading", "total_load_time">>, 0)
        size_mb ==
            SafeGet(res, <<"performance", "loading", "response_size_mb">>, 0)
        perf_score ==
            100 - (IF load_time > 300 THEN 30 ELSE 0)
                - (IF load_time > 200 THEN 15 ELSE 0)
                - (IF load_time > 100 THEN 5 ELSE 0)
                - (IF size_mb > 2000 THEN 20 ELSE 0)
                - (IF size_mb > 1000 THEN 10 ELSE 0)
        acc_score ==
            IF "wcag_compliance" \in DOMAIN res["accessibility"]
            THEN SafeGet(res, <<"accessibility", "wcag_compliance",
                                "level_aa", "percentage">>, 0)
            ELSE 0
        security_score == SafeGet(res, <<"security", "score">>, 0)
        p == Max(0, perf_score)
    IN  [performance |-> p,
         accessibility |-> acc_score,
         security |-> security_score,
         overall |-> (40 * p + 4 * acc_score + 20 * security_score + 5)
                        \div 10]

\* _calculate_scores whose overall score is the plain average of the three
CalculateScores_PlainAverage(res) ==
    LET load_time ==
            SafeGet(res, <<"performance", "loading", "total_load_time">>, 0)
        size_mb ==
            SafeGet(res, <<"performance", "loading", "response_size_mb">>, 0)
        perf_score ==
            100 - (IF load_time > 300 THEN 30
                   ELSE IF load_time > 200 THEN 15
                   ELSE IF load_time > 100 THEN 5 ELSE 0)
                - (IF size_mb > 2000 THEN 20
                   ELSE IF size_mb > 1000 THEN 10 ELSE 0)
        acc_score ==
            IF "wcag_compliance" \in DOMAIN res["accessibility"]
            THEN SafeGet(res, <<"accessibility", "wcag_compliance",
                                "level_aa", "percentage">>, 0)
            ELSE 0
        security_score == SafeGet(res, <<"security", "score">>, 0)
        p == Max(0, perf_score)
    IN  [performance |-> p,
         accessibility |-> acc_score,
         security |-> security_score,
         overall |-> RoundHalfEven(
                        100 * p + 10 * acc_score + 100 * security_score, 30)]

\* _calculate_scores: the record stored in self.results["scores"].
\* overall: 0.4 p + 0.4 a + 0.2 s in hundredths is 40 p + 4 a10 + 20 s, an
\* even number, so round(..., 1) never meets a tie
CalculateScores(res) ==
    LET load_time ==
            SafeGet(res, <<"performance", "loading", "total_load_time">>, 0)
        size_mb ==
            SafeGet(res, <<"performance", "loading", "response_size_mb">>, 0)
        perf_score ==
            100 - (IF load_time > 300 THEN 30
                   ELSE IF load_time > 200 THEN 15
                   ELSE IF load_time > 100 THEN 5 ELSE 0)
                - (IF size_mb > 2000 THEN 20
                   ELSE IF size_mb > 1000 THEN 10 ELSE 0)
        acc_score ==
            IF "wcag_compliance" \in DOMAIN res["accessibility"]
            THEN SafeGet(res, <<"accessibility", "wcag_compliance",
                                "level_aa", "percentage">>, 0)
            ELSE 0
        security_score == SafeGet(res, <<"security", "score">>, 0)
        p == Max(0, perf_score)
    IN  [performance |-> p,
         accessibility |-> acc_score,
         security |-> security_score,
         overall |-> (40 * p + 4 * acc_score + 20 * security_score + 5)
                        \div 10]

-----------------------------------------------------------------------------
(* PerformanceAnalyzer *)

\* self.performance[section][key] = value
PutPerf(perf, section, key, value) ==
    [perf EXCEPT ![section] = Put(perf[section], key, value)]

\* check_dns_lookup_time: the time of socket.gethostbyname in hundredths of
\* a millisecond, or None when it raised
CheckDnsLookupTime(lookup) ==
    IF lookup.ok THEN [none |-> FALSE, value |-> lookup.time]
    ELSE [none |-> TRUE, value |-> 0]

\* check_loading_performance.  "if dns_time:" is false for None and for
\* 0.0.  An exception in the DNS block is swallowed ("except Exception:
\* pass") and check_dns_lookup_time turns its own into None: nothing is
\* written for either
CheckLoadingPerformance(perf, resp, lookup) ==
    LET response_size == resp.content_len
        dns_time == CheckDnsLookupTime(lookup)
        p1 == PutPerf(PutPerf(PutPerf(PutPerf(perf,
                "loading", "status_code", resp.status_code),
                "loading", "response_size_bytes", response_size),
                "loading", "response_size_kb",
                    RoundHalfEven(response_size * 100, 1024)),
                "loading", "response_size_mb",
                    RoundHalfEven(response_size * 1000, 1024 * 1024))
    IN  IF ~dns_time.none /\ dns_time.value # 0
        THEN LET p2 == PutPerf(p1, "loading", "dns_lookup_time",
                               dns_time.value)
             IN  IF "total_load_time" \in DOMAIN p2["loading"]
                 THEN PutPerf(p2, "loading", "response_time",
                        RoundHalfEven(
                            1000 * p2["loading"]["total_load_time"]
                                - dns_time.value, 1000))
                 ELSE p2
        ELSE p1

\* analyze_resources: the documents of the model hold no stylesheet link,
\* no script with src and no image with width, height, srcset or sizes;
\* every image has src="a.jpg"
AnalyzeResources(perf, doc) ==
    LET images == Len(doc.images)
    IN  [perf EXCEPT !["resources"] =
            [total_images |-> images,
             total_css_files |-> 0,
             total_js_files |-> 0,
             images_without_dimensions |-> images,
             images_without_dimensions_percentage |->
                Percentage10(images, Max(images, 1)),
             responsive_images |-> 0,
             responsive_images_percentage |->
                Percentage10(0, Max(images, 1)),
             webp_images |-> 0,
             webp_percentage |-> Percentage10(0, Max(images, 1)),
             inline_scripts |-> Len(doc.inline_scripts)] @@ @]

\* analyze_seo: the documents of the model have the title "T" and no <meta>
AnalyzeSeo(perf, doc, scheme) ==
    LET headings == AllHeadings(doc)
        IsH1(h) == h[1] = 1
    IN  [perf EXCEPT !["seo"] =
            [title |-> "T",
             title_length |-> 1,
             meta_description |-> "Missing",
             meta_description_length |-> 0,
             viewport_meta |-> "Missing",
             url_analysis |-> [uses_https |-> scheme = "https"],
             headings_analysis |->
                [total |-> Len(headings),
                 h1_count |-> Len(SelectSeq(headings, IsH1)),
                 samples |-> Take(headings, 5)]] @@ @]

\* analyze_mobile_optimization
AnalyzeMobileOptimization(perf, doc) ==
    [perf EXCEPT !["mobile"] =
        [viewport_configured |-> FALSE,
         responsive_images |-> Get(perf["resources"], "responsive_images", 0),
         css_media_queries |-> 0,
         mobile_input_types |-> 0] @@ @]

\* analyze_technical_aspects
AnalyzeTechnicalAspects(perf, doc) ==
    [perf EXCEPT !["technical"] =
        [html_validation_errors |-> 0,
         inline_scripts |-> Len(doc.inline_scripts),
         lang_attribute |-> IF doc.lang = NoneV THEN "Missing" ELSE doc.lang,
         dir_attribute |-> "Not specified"] @@ @]

-----------------------------------------------------------------------------
(* UsabilityAnalyzer *)

\* the href values the model's documents use, by what check_navigation
\* tests on them
HrefValues ==
    {"", "#", "#top", "/about", "javascript:void(0)", "javascript:;",
     "https://example.com/", "https://facebook.com/page", "http://["}

\* not href or href.startswith('#')
SkippedHref(href) == href \in {"", "#", "#top"}

\* href.startswith('http') or href.startswith('//')
AbsoluteHref(href) ==
    href \in {"https://example.com/", "https://facebook.com/page", "http://["}

\* urlparse(href) raises ValueError("Invalid IPv6 URL")
UrlparseRaises(href) == href = "http://["

\* any(social in domain for social in [...])
SocialHref(href) == href = "https://facebook.com/page"

\* href == "#" or href == "javascript:void(0)" or href == "javascript:;",
\* tested on the links that were not skipped
BrokenHref(href) == href \in {"#", "javascript:void(0)", "javascript:;"}

\* check_navigation raises: the first link that is classified has an href
\* urlparse rejects
NavigationRaises(doc) ==
    \E i \in 1..Len(doc.hrefs) :
        /\ ~SkippedHref(doc.hrefs[i])
        /\ AbsoluteHref(doc.hrefs[i])
        /\ UrlparseRaises(doc.hrefs[i])

\* check_navigation when it returns; the documents of the model hold no
\* <nav>, breadcrumb or search element
CheckNavigation(usab, doc) ==
    LET Kept(h) == ~SkippedHref(h)
        links == SelectSeq(doc.hrefs, Kept)
        Internal(h) == ~AbsoluteHref(h)
        Social(h) == AbsoluteHref(h) /\ SocialHref(h)
        External(h) == AbsoluteHref(h) /\ ~SocialHref(h)
        broken == Len(SelectSeq(links, BrokenHref))
    IN  Put(usab, "navigation",
            [nav_elements |-> 0,
             breadcrumbs |-> 0,
             search_functionality |-> FALSE,
             total_links |-> Len(doc.hrefs),
             internal_links |-> Len(SelectSeq(links, Internal)),
             external_links |-> Len(SelectSeq(links, External)),
             social_media_links |-> Len(SelectSeq(links, Social)),
             potentially_broken_links |-> broken,
             navigation_clarity_score |-> IF broken = 0 THEN 20 ELSE 0])

\* check_content_usability: the documents of the model hold no paragraph,
\* list, emphasis or button; content_score keeps the two terms they reach
CheckContentUsability(usab, doc) ==
    LET total_images == Len(doc.images)
        WithAlt(img) == Truthy(img.alt)
        images_with_alt == Len(SelectSeq(doc.images, WithAlt))
        content_score ==
            20 + (IF 10 * images_with_alt > 7 * Max(total_images, 1)
                  THEN 20 ELSE 0)
    IN  Put(usab, "content",
            [total_paragraphs |-> 0,
             average_paragraph_length |-> 0,
             total_images |-> total_images,
             images_with_alt |-> images_with_alt,
             content_clarity_score |-> Min(100, content_score)])

\* check_readability: the text of the document is not modelled; the record
\* is the one of a page whose only text is its title "T"
CheckReadability(usab, doc) ==
    Put(usab, "readability",
        [total_words |-> 1, total_sentences |-> 1,
         words_per_sentence |-> 10, average_word_length |-> 10,
         long_words |-> 0, readability_score |-> 75])

\* check_mobile_usability: no viewport <meta>, no @media rule, no typed
\* input in the documents of the model
CheckMobileUsability(usab, doc) ==
    Put(usab, "mobile",
        [has_viewport |-> FALSE, media_queries |-> 0, touch_elements |-> 0,
         mobile_friendly_inputs |-> 0, mobile_usability_score |-> 0])

-----------------------------------------------------------------------------
(* The analyzers' constructors, on the shared self.results *)

\* AccessibilityAnalyzer.__init__: self.accessibility.update({...})
AccessibilityAnalyzerNew(res) ==
    [res EXCEPT !["accessibility"] = AccessibilityInit @@ @]

\* PerformanceAnalyzer.__init__ keeps a reference and writes nothing
PerformanceAnalyzerNew(res) == res

\* SecurityAnalyzer.__init__: self.results["security"] = {}
SecurityAnalyzerNew(res) == [res EXCEPT !["security"] = <<>>]

\* a UsabilityAnalyzer.__init__ that starts from an empty result
UsabilityAnalyzerNew_ClearsResults(res) ==
    [k \in DOMAIN res |-> IF k \in {"url", "date_analyzed"} THEN res[k]
                          ELSE <<>>]

\* UsabilityAnalyzer.__init__: self.results["usability"] = {}
UsabilityAnalyzerNew(res) == [res EXCEPT !["usability"] = <<>>]

\* the keys of self.results outside the four namespaces
Rest(res) ==
    [k \in DOMAIN res \ {"accessibility", "performance", "security",
                          "usability"} |-> res[k]]

-----------------------------------------------------------------------------
(* calculate_contrast_ratio on any colour string *)

\* A colour string is given by what parse_color tests on it:
\*   [head |-> "#", digits |-> the characters after the "#"],
\*   [head |-> "rgb", groups |-> the three numbers the rgb(...) pattern
\*    matched, or <<>> when re.search found no match],
\*   [head |-> "", text |-> a string with neither prefix].

HexDigits ==
    {"0", "1", "2", "3", "4", "5", "6", "7", "8", "9",
     "a", "b", "c", "d", "e", "f", "A", "B", "C", "D", "E", "F"}

HexValue(ch) ==
    CASE ch \in {"a", "A"} -> 10
      [] ch \in {"b", "B"} -> 11
      [] ch \in {"c", "C"} -> 12
      [] ch \in {"d", "D"} -> 13
      [] ch \in {"e", "E"} -> 14
      [] ch \in {"f", "F"} -> 15
      [] OTHER -> CHOOSE n \in 0..9 :
            ch = <<"0", "1", "2", "3", "4", "5", "6", "7", "8", "9">>[n + 1]

\* s[a:b] of a string of characters, 0 <= a <= b
Slice(s, a, b) == SubSeq(s, a + 1, Min(b, Len(s)))

\* int(s, 16) for a string of at most two characters that holds no sign,
\* blank or underscore: [raised, value]; int('', 16) and a character that
\* is no hex digit raise ValueError
Int16(s) ==
    IF s = <<>> \/ \E i \in 1..Len(s) : s[i] \notin HexDigits
    THEN [raised |-> "ValueError", value |-> 0]
    ELSE [raised |-> NoneV,
          value |-> IF Len(s) = 1 THEN HexValue(s[1])
                    ELSE 16 * HexValue(s[1]) + HexValue(s[2])]

\* parse_color: [raised, rgb], the channels as integers (before / 255.0)
ParseColor(color) ==
    IF color.head = "#"
    THEN LET r == Int16(Slice(color.digits, 0, 2))
             g == Int16(Slice(color.digits, 2, 4))
             b == Int16(Slice(color.digits, 4, 6))
         IN  IF r.raised # NoneV \/ g.raised # NoneV \/ b.raised # NoneV
             THEN [raised |-> "ValueError", rgb |-> <<0, 0, 0>>]
             ELSE [raised |-> NoneV, rgb |-> <<r.value, g.value, b.value>>]
    ELSE IF color.head = "rgb" /\ color.groups # <<>>
    THEN [raised |-> NoneV, rgb |-> color.groups]
    ELSE [raised |-> NoneV, rgb |-> <<0, 0, 0>>]

\* adjust_color_value(channel / 255.0) in units of 10^-5: linear up to
\* 0.03928, else ((v + 0.055) / 1.055) ** 2.4, tabulated for the channel
\* values of the model's colours
AdjustColorValue(channel) ==
    IF 100000 * channel <= 3928 * 255
    THEN RoundHalfEven(channel * 10000000, 255 * 1292)
    ELSE CASE channel = 15 -> 478
           [] channel = 119 -> 18447
           [] channel = 255 -> 100000
           [] channel = 300 -> 144948

\* get_luminance in units of 10^-9
GetLuminance(rgb) ==
    2126 * AdjustColorValue(rgb[1]) + 7152 * AdjustColorValue(rgb[2])
        + 722 * AdjustColorValue(rgb[3])

\* calculate_contrast_ratio that divides the first luminance by the second
CalculateContrastRatio_FirstOverSecond(color1, color2) ==
    LET c1 == ParseColor(color1)
        c2 == ParseColor(color2)
        l1 == GetLuminance(c1.rgb)
        l2 == GetLuminance(c2.rgb)
    IN  IF c1.raised # NoneV \/ c2.raised # NoneV
        THEN [raised |-> "ValueError", ratio |-> <<1, 1>>]
        ELSE [raised |-> NoneV, ratio |-> <<l1 + 50000000, l2 + 50000000>>]

\* calculate_contrast_ratio(color1, color2): [raised, ratio], the ratio as
\* the fraction <<num, den>>
CalculateContrastRatio(color1, color2) ==
    LET c1 == ParseColor(color1)
        c2 == ParseColor(color2)
        l1 == GetLuminance(c1.rgb)
        l2 == GetLuminance(c2.rgb)
    IN  IF c1.raised # NoneV \/ c2.raised # NoneV
        THEN [raised |-> "ValueError", ratio |-> <<1, 1>>]
        ELSE IF l1 > l2
        THEN [raised |-> NoneV, ratio |-> <<l1 + 50000000, l2 + 50000000>>]
        ELSE [raised |-> NoneV, ratio |-> <<l2 + 50000000, l1 + 50000000>>]

-----------------------------------------------------------------------------
(* Inputs *)

HeadingLevels == 1..6

\* the document <html lang="en"><head><title>T</title></head>
\* <body><img src="a.jpg"></body></html>
BaseSoup ==
    [lang |-> "en",
     headings |-> <<>>,
     images |-> <<[alt |-> NoneV, role |-> NoneV]>>,
     fields |-> <<>>,
     labels_for |-> {},
     tabindexes |-> <<>>,
     handlers |-> [a \in 1..Len(RiskyAttrs) |-> 0],
     js_links |-> 0,
     hrefs |-> <<>>,
     inline_scripts |-> <<>>,
     mixed |-> [p \in 1..Len(MixedPairs) |-> 0],
     styles |-> <<>>,
     forms |-> <<>>]

AllHeaderNames ==
    {SecurityHeaderNames[i] : i \in 1..Len(SecurityHeaderNames)}
        \cup {"Feature-Policy"}

TlsOutcomes ==
    {[ok |-> FALSE, days |-> 0], [ok |-> TRUE, days |-> 29],
     [ok |-> TRUE, days |-> 30]}

CertValid == [ok |-> TRUE, days |-> 30]

FormKinds ==
    [action : {"", "http", "other"}, csrf : BOOLEAN,
     autocomplete_off : BOOLEAN, passwords : SeqsUpTo(BOOLEAN, MaxPasswords)]

StyleKinds == [http_urls : 0..MaxElems, decls : {<<>>}]

\* documents that differ from BaseSoup in one security-relevant aspect; the
\* last family holds two forms without autocomplete=off
SecuritySoups ==
    {[BaseSoup EXCEPT !.handlers[a] = n] :
        a \in 1..Len(RiskyAttrs), n \in 1..MaxElems}
    \cup {[BaseSoup EXCEPT !.handlers = [a \in 1..Len(RiskyAttrs) |-> n]] :
        n \in 0..MaxElems}
    \cup {[BaseSoup EXCEPT !.js_links = n] : n \in 1..MaxElems}
    \cup {[BaseSoup EXCEPT !.inline_scripts = sc] :
        sc \in SeqsUpTo(BOOLEAN, MaxScripts)}
    \cup {[BaseSoup EXCEPT !.mixed[p] = n] :
        p \in 1..Len(MixedPairs), n \in 1..MaxElems}
    \cup {[BaseSoup EXCEPT !.styles = st] : st \in SeqsUpTo(StyleKinds, MaxStyles)}
    \cup {[BaseSoup EXCEPT !.forms = fs] : fs \in SeqsUpTo(FormKinds, MaxForms)}
    \cup {[BaseSoup EXCEPT !.forms = <<f, g>>] :
        f, g \in {k \in FormKinds :
                    ~k.autocomplete_off /\ k.passwords \in {<<>>, <<FALSE>>}}}

HeadingKinds == {<<level, "text">> : level \in HeadingLevels}

ImageKinds == [alt : {NoneV, "", "text"}, role : {NoneV, "presentation"}]

FieldKinds ==
    [id : {NoneV, "", "x"}, aria_label : {NoneV, "", "name"},
     aria_labelledby : {NoneV, "lbl"}]

TabindexValues == {NoneV, "", "0", "-1", "2", "x"}

\* the values of the declarations: the greys of Palette, a three-digit
\* colour and two keywords
DeclValues == Palette \cup {"#fff", "transparent", "inherit"}

DeclKinds ==
    [selector : {"body"}, prop : {"background-color", "color"},
     value : DeclValues]
    \cup [selector : {"a"}, prop : {"color"}, value : DeclValues]

LowContrastStyle ==
    [http_urls |-> 0,
     decls |-> <<[selector |-> "body", prop |-> "background-color",
                  value |-> "#ffffff"],
                 [selector |-> "body", prop |-> "color",
                  value |-> "#777777"]>>]

\* style blocks with twelve background/text pairs of low contrast and three
\* that cannot be evaluated, and with twelve pairs of sufficient contrast
CrowdedStyles ==
    LET Rules(prop, values) ==
            [i \in 1..Len(values) |->
                [selector |-> "body", prop |-> prop, value |-> values[i]]]
        dark == <<"#000000", "#111111", "#222222">>
    IN  {[http_urls |-> 0,
          decls |-> Rules("background", dark)
                    \o Rules("color", dark \o <<"#333333", "#fff">>)],
         [http_urls |-> 0,
          decls |-> Rules("background", dark)
                    \o Rules("color", <<"#cccccc", "#dddddd", "#eeeeee",
                                        "#ffffff">>)]}

\* documents that differ from BaseSoup in one aspect the accessibility
\* checks read, and the documents that combine the six findings the WCAG
\* score is made of
AccessibilitySoups ==
    {[BaseSoup EXCEPT !.headings = hs] :
        hs \in SeqsUpTo(HeadingKinds, MaxHeadings)}
    \cup {[BaseSoup EXCEPT !.images = im] :
        im \in SeqsUpTo(ImageKinds, MaxImages)}
    \cup {[BaseSoup EXCEPT !.fields = fs, !.labels_for = lf] :
        fs \in SeqsUpTo(FieldKinds, MaxFields), lf \in SUBSET {"x"}}
    \cup {[BaseSoup EXCEPT !.tabindexes = tb] :
        tb \in SeqsUpTo(TabindexValues, MaxTabs)}
    \cup {[BaseSoup EXCEPT !.styles = <<[http_urls |-> 0, decls |-> ds]>>] :
        ds \in SeqsUpTo(DeclKinds, MaxDecls)}
    \cup {[BaseSoup EXCEPT !.styles = <<st>>] : st \in CrowdedStyles}
    \cup {[BaseSoup EXCEPT !.lang = l, !.headings = hs, !.images = im,
                           !.fields = fs, !.tabindexes = tb, !.styles = st] :
        l \in {NoneV, "en"},
        hs \in {<<>>, <<<<2, "text">>>>},
        im \in {<<>>, <<[alt |-> NoneV, role |-> NoneV]>>},
        fs \in {<<>>,
                <<[id |-> NoneV, aria_label |-> "name",
                   aria_labelledby |-> NoneV]>>,
                <<[id |-> NoneV, aria_label |-> NoneV,
                   aria_labelledby |-> NoneV]>>},
        tb \in {<<>>, <<"2">>},
        st \in {<<>>, <<LowContrastStyle>>}}

\* what one run of SecurityAnalyzer is given
SecurityInputs ==
    [url : {"http", "https"},
     headers : {[n \in present |-> "value"] : present \in SUBSET AllHeaderNames},
     tls : TlsOutcomes, soup : {BaseSoup}]
    \cup [url : {"http", "https"}, headers : {<<>>},
          tls : {CertValid}, soup : SecuritySoups]

\* findings as the five checks leave them, in any combination of sizes;
\* mixed = -1 stands for the record check_mixed_content writes without https
ScoreInputs ==
    {[missing_security_headers |-> m,
      https_enabled |-> h,
      ssl_issues |-> [i \in 1..n |-> "issue"],
      potential_xss_vectors |-> Elems(x),
      mixed_content |->
        IF c = -1 THEN [status |-> "N/A - not using HTTPS"]
        ELSE [status |-> IF c > 0 THEN "Issues found" ELSE "No issues",
              items |-> Elems(c), count |-> c],
      forms |-> [total |-> f, insecure_forms |-> Elems(f)]] :
        m \in 0..Len(SecurityHeaderNames), h \in BOOLEAN,
        n \in 0..MaxFindings, x \in 0..MaxVectors,
        c \in (-1)..MaxVectors, f \in 0..MaxFindings}

\* socket.gethostbyname raised, returned within the clock's resolution, or
\* took 12.5 ms
DnsLookups ==
    {[ok |-> FALSE, time |-> 0], [ok |-> TRUE, time |-> 0],
     [ok |-> TRUE, time |-> 1250]}

\* the documents a run of analyze parses: BaseSoup with <a href> elements
\* (js_links counts those whose href starts with javascript:), with a style
\* block, without its image, or without its lang attribute
AnalyzeSoups ==
    {BaseSoup}
    \cup {[BaseSoup EXCEPT !.hrefs = <<h>>,
                           !.js_links =
                                IF h \in {"javascript:void(0)", "javascript:;"}
                                THEN 1 ELSE 0] : h \in HrefValues}
    \cup {[BaseSoup EXCEPT !.hrefs = <<"#", "/about">>]}
    \cup {[BaseSoup EXCEPT !.styles = <<LowContrastStyle>>]}
    \cup {[BaseSoup EXCEPT !.hrefs = <<"/about", "http://[">>]}
    \cup {[BaseSoup EXCEPT !.images = <<>>],
          [BaseSoup EXCEPT !.lang = NoneV]}

\* requests.get raised, or returned a response: total_time in hundredths of
\* a second; len(response.content) of 1.0 kB, 1.001 MB and 2.001 MB; none
\* or all of the security headers
Fetches ==
    {[ok |-> FALSE, error |-> "ConnectionError"]}
    \cup {[ok |-> TRUE, load_time |-> t,
           response |-> [headers |-> h, status_code |-> 200,
                         content_len |-> n],
           soup |-> BaseSoup] :
            t \in {50, 101, 201, 301}, n \in {1024, 1049101, 2098201},
            h \in {<<>>, [name \in AllHeaderNames |-> "value"]}}
    \cup {[ok |-> TRUE, load_time |-> 50,
           response |-> [headers |-> <<>>, status_code |-> c,
                         content_len |-> 1024],
           soup |-> d] :
            c \in {200, 404}, d \in AnalyzeSoups}

\* what one run of WebsiteAnalyzer.analyze meets
AnalyzeInputs ==
    [url : {"http"}, fetch : Fetches, dns : DnsLookups, tls : {CertValid}]
    \cup [url : {"https"}, fetch : Fetches, dns : DnsLookups,
          tls : TlsOutcomes]

\* Level-AA percentages check_wcag_compliance can store, in tenths
AaPercentages == {Percentage10(k, 15) : k \in 8..14}

\* self.results as _calculate_scores can find it: with or without a load
\* time, a size, a WCAG record and a security score
AggregateInputs ==
    [loading :
        {<<>>}
        \cup {[total_load_time |-> t] : t \in {0, 100, 101, 200, 201, 300, 301}}
        \cup {[response_size_mb |-> m] : m \in {0, 1000, 1001, 2000, 2001}}
        \cup {[total_load_time |-> t, response_size_mb |-> m] :
                t \in {100, 101, 201, 301}, m \in {1000, 1001, 2001}},
     accessibility :
        {<<>>, AccessibilityInit}
        \cup {[AccessibilityInit EXCEPT !.wcag_compliance =
                    [level_aa |-> [percentage |-> a]]] : a \in AaPercentages},
     security :
        {<<>>} \cup {[score |-> s] : s \in {0, 1, 35, 50, 99, 100}}]

\* colour strings handed to calculate_contrast_ratio: well-formed #rrggbb,
\* other strings that start with "#", rgb(...) strings that the pattern
\* matches or not, and strings with neither prefix
ColorStrings ==
    {[head |-> "#", digits |-> d] :
        d \in {<<"0", "0", "0", "0", "0", "0">>,
               <<"f", "f", "f", "f", "f", "f">>,
               <<"F", "F", "F", "F", "F", "F">>,
               <<"7", "7", "7", "7", "7", "7">>,
               <<"0", "a", "0", "a", "0", "a">>,
               <<"f", "f", "0", "0", "0", "0">>,
               <<"f", "f", "f">>,
               <<>>,
               <<"z", "z", "z", "z", "z", "z">>,
               <<"f", "f", "z", "z", "0", "0">>,
               <<"f", "f", "f", "f", "f">>,
               <<"f", "f", "f", "f", "f", "f", "z", "z">>}}
    \cup {[head |-> "rgb", groups |-> g] :
        g \in {<<0, 0, 0>>, <<255, 255, 255>>, <<119, 119, 119>>,
               <<300, 0, 0>>, <<>>}}
    \cup {[head |-> "", text |-> t] : t \in {"red", ""}}

\* the state WebsiteAnalyzer.__init__ leaves, outside a run of analyze
NoRun ==
    /\ performance = PerformanceInit
    /\ usability = <<>>
    /\ results = ResultsInit
    /\ fetch = [ok |-> FALSE, error |-> "ConnectionError"]
    /\ dns = [ok |-> FALSE, time |-> 0]
    /\ analyzers = {}
    /\ network = <<>>
    /\ output = <<>>
    /\ raised = NoneV

\* no call of calculate_contrast_ratio
NoContrastCall ==
    /\ colors_arg = <<>>
    /\ ratio_ret = [raised |-> NoneV, ratio |-> <<1, 1>>]

-----------------------------------------------------------------------------
(* SecurityAnalyzer.analyze, one action per check *)

SecurityFrame ==
    UNCHANGED <<url, response, tls, soup, accessibility, headings_arg,
                hierarchy_ret, performance, usability, results, fetch, dns,
                analyzers, output, raised, colors_arg, ratio_ret>>

\* an analyze() that goes from the headers straight to the content checks
SecCheckSecurityHeaders_SkipsSslTls ==
    /\ pc = "check_security_headers"
    /\ security' = CheckSecurityHeaders(security, response.headers)
    /\ pc' = "check_content_security"
    /\ UNCHANGED network
    /\ SecurityFrame

SecCheckSecurityHeaders ==
    /\ pc = "check_security_headers"
    /\ security' = CheckSecurityHeaders(security, response.headers)
    /\ pc' = "check_ssl_tls"
    /\ UNCHANGED network
    /\ SecurityFrame

\* on an https URL check_ssl_tls opens a socket to port 443 and does the TLS
\* handshake itself
SecCheckSslTls ==
    /\ pc = "check_ssl_tls"
    /\ security' = CheckSslTls(security, url, tls)
    /\ network' =
            IF url = "https"
            THEN Append(network, [op |-> "tls", by |-> "SecurityAnalyzer"])
            ELSE network
    /\ pc' = "check_content_security"
    /\ SecurityFrame

SecCheckContentSecurity ==
    /\ pc = "check_content_security"
    /\ security' = CheckContentSecurity(security, soup)
    /\ pc' = "check_mixed_content"
    /\ UNCHANGED network
    /\ SecurityFrame

SecCheckMixedContent ==
    /\ pc = "check_mixed_content"
    /\ security' = CheckMixedContent(security, soup)
    /\ pc' = "check_form_security"
    /\ UNCHANGED network
    /\ SecurityFrame

SecCheckFormSecurity ==
    /\ pc = "check_form_security"
    /\ security' = CheckFormSecurity(security, soup)
    /\ pc' = "calculate_security_score"
    /\ UNCHANGED network
    /\ SecurityFrame

SecCalculateSecurityScore ==
    /\ pc = "calculate_security_score"
    /\ security' = CalculateSecurityScore(security)
    /\ pc' = "security_done"
    /\ UNCHANGED network
    /\ SecurityFrame

\* SecurityAnalyzer(soup, response, url, results).analyze()
InitSecurity ==
    /\ \E input \in SecurityInputs :
        /\ url = input.url
        /\ response = [headers |-> input.headers]
        /\ tls = input.tls
        /\ soup = input.soup
    /\ security = <<>>
    /\ accessibility = <<>>
    /\ headings_arg = <<>>
    /\ hierarchy_ret = <<>>
    /\ NoRun
    /\ NoContrastCall
    /\ pc = "check_security_headers"

NextSecurity ==
    \/ SecCheckSecurityHeaders
    \/ SecCheckSslTls
    \/ SecCheckContentSecurity
    \/ SecCheckMixedContent
    \/ SecCheckFormSecurity
    \/ SecCalculateSecurityScore

SpecSecurity == InitSecurity /\ [][NextSecurity]_vars

\* calculate_security_score on its own, over any findings
InitScore ==
    /\ security \in ScoreInputs
    /\ url = "http"
    /\ response = [headers |-> <<>>]
    /\ tls = CertValid
    /\ soup = BaseSoup
    /\ accessibility = <<>>
    /\ headings_arg = <<>>
    /\ hierarchy_ret = <<>>
    /\ NoRun
    /\ NoContrastCall
    /\ pc = "calculate_security_score"

SpecScore == InitScore /\ [][SecCalculateSecurityScore]_vars

-----------------------------------------------------------------------------
(* check_heading_hierarchy called directly *)

CallCheckHeadingHierarchy ==
    /\ pc = "check_heading_hierarchy"
    /\ hierarchy_ret' =
            [helpers |-> CheckHeadingHierarchy(headings_arg),
             legacy |-> LegacyCheckHeadingHierarchy(headings_arg)]
    /\ pc' = "hierarchy_returned"
    /\ UNCHANGED <<url, response, tls, soup, security, accessibility,
                   headings_arg, performance, usability, results, fetch, dns,
                   analyzers, network, output, raised, colors_arg, ratio_ret>>

InitHeading ==
    /\ \E levels \in SeqsUpTo(HeadingLevels, MaxHeadings) :
        headings_arg = [i \in 1..Len(levels) |-> <<levels[i], "text">>]
    /\ hierarchy_ret = <<>>
    /\ url = "http"
    /\ response = [headers |-> <<>>]
    /\ tls = CertValid
    /\ soup = BaseSoup
    /\ security = <<>>
    /\ accessibility = <<>>
    /\ NoRun
    /\ NoContrastCall
    /\ pc = "check_heading_hierarchy"

SpecHeading == InitHeading /\ [][CallCheckHeadingHierarchy]_vars

-----------------------------------------------------------------------------
(* AccessibilityAnalyzer.analyze, one action per check *)

AccessibilityFrame ==
    UNCHANGED <<url, response, tls, soup, security, headings_arg,
                hierarchy_ret, performance, usability, results, fetch, dns,
                analyzers, network, output, raised, colors_arg, ratio_ret>>

AccCheckSemanticStructure ==
    /\ pc = "check_semantic_structure"
    /\ accessibility' = CheckSemanticStructure(accessibility, soup)
    /\ pc' = "check_keyboard_navigation"
    /\ AccessibilityFrame

AccCheckKeyboardNavigation ==
    /\ pc = "check_keyboard_navigation"
    /\ accessibility' = CheckKeyboardNavigation(accessibility, soup)
    /\ pc' = "check_screen_reader_support"
    /\ AccessibilityFrame

AccCheckScreenReaderSupport ==
    /\ pc = "check_screen_reader_support"
    /\ accessibility' = CheckScreenReaderSupport(accessibility, soup)
    /\ pc' = "check_forms"
    /\ AccessibilityFrame

AccCheckForms ==
    /\ pc = "check_forms"
    /\ accessibility' = CheckForms(accessibility, soup)
    /\ pc' = "check_multimedia"
    /\ AccessibilityFrame

AccCheckMultimedia ==
    /\ pc = "check_multimedia"
    /\ accessibility' = CheckMultimedia(accessibility, soup)
    /\ pc' = "check_text_content"
    /\ AccessibilityFrame

AccCheckTextContent ==
    /\ pc = "check_text_content"
    /\ accessibility' = CheckTextContent(accessibility, soup)
    /\ pc' = "check_color_contrast"
    /\ AccessibilityFrame

\* list(set(...)) in extract_css_colors fixes no order of the colours
AccCheckColorContrast ==
    /\ pc = "check_color_contrast"
    /\ LET colors == ExtractCssColors(CssContent(soup))
       IN  \E background \in Orderings(colors.background),
              text \in Orderings(colors.text) :
                accessibility' =
                    CheckColorContrast(accessibility, background, text)
    /\ pc' = "check_wcag_compliance"
    /\ AccessibilityFrame

AccCheckWcagCompliance ==
    /\ pc = "check_wcag_compliance"
    /\ accessibility' = CheckWcagCompliance(accessibility)
    /\ pc' = "accessibility_done"
    /\ AccessibilityFrame

\* AccessibilityAnalyzer(soup, results).analyze()
InitAccessibility ==
    /\ soup \in AccessibilitySoups
    /\ accessibility = AccessibilityInit
    /\ url = "http"
    /\ response = [headers |-> <<>>]
    /\ tls = CertValid
    /\ security = <<>>
    /\ headings_arg = <<>>
    /\ hierarchy_ret = <<>>
    /\ NoRun
    /\ NoContrastCall
    /\ pc = "check_semantic_structure"

NextAccessibility ==
    \/ AccCheckSemanticStructure
    \/ AccCheckKeyboardNavigation
    \/ AccCheckScreenReaderSupport
    \/ AccCheckForms
    \/ AccCheckMultimedia
    \/ AccCheckTextContent
    \/ AccCheckColorContrast
    \/ AccCheckWcagCompliance

SpecAccessibility == InitAccessibility /\ [][NextAccessibility]_vars

-----------------------------------------------------------------------------
(* WebsiteAnalyzer.analyze, one action per step *)

\* the run's inputs, and the variables only a direct call of a helper uses
RunFrame ==
    UNCHANGED <<url, tls, fetch, dns, headings_arg, hierarchy_ret, colors_arg,
                ratio_ret>>

\* self.results = res, namespace by namespace
StoreResults(res) ==
    /\ accessibility' = res["accessibility"]
    /\ performance' = res["performance"]
    /\ security' = res["security"]
    /\ usability' = res["usability"]
    /\ results' = Rest(res)

\* a get_website that prints the error of requests.get and returns
MainGetWebsite_SwallowsError ==
    /\ pc = "get_website"
    /\ network' = Append(network, [op |-> "http_get", by |-> "WebsiteAnalyzer"])
    /\ IF fetch.ok
       THEN /\ response' = fetch.response
            /\ soup' = fetch.soup
            /\ performance' = PutPerf(performance, "loading",
                                      "total_load_time", fetch.load_time)
       ELSE UNCHANGED <<response, soup, performance>>
    /\ pc' = "AccessibilityAnalyzer"
    /\ UNCHANGED <<security, accessibility, usability, results, analyzers,
                   output, raised>>
    /\ RunFrame

\* get_website: requests.get, then the load time and the parsed document;
\* an exception is printed and raised again, and analyze does the same
MainGetWebsite ==
    /\ pc = "get_website"
    /\ network' = Append(network, [op |-> "http_get", by |-> "WebsiteAnalyzer"])
    /\ IF fetch.ok
       THEN /\ response' = fetch.response
            /\ soup' = fetch.soup
            /\ performance' = PutPerf(performance, "loading",
                                      "total_load_time", fetch.load_time)
            /\ pc' = "AccessibilityAnalyzer"
            /\ UNCHANGED raised
       ELSE /\ raised' = fetch.error
            /\ pc' = "raised"
            /\ UNCHANGED <<response, soup, performance>>
    /\ UNCHANGED <<security, accessibility, usability, results, analyzers,
                   output>>
    /\ RunFrame

\* _initialize_analyzers, one action per constructor call
MainNewAccessibilityAnalyzer ==
    /\ pc = "AccessibilityAnalyzer"
    /\ StoreResults(AccessibilityAnalyzerNew(
            SelfResults(accessibility, performance, security, usability,
                        results)))
    /\ analyzers' = analyzers \cup {"accessibility_analyzer"}
    /\ pc' = "PerformanceAnalyzer"
    /\ UNCHANGED <<response, soup, network, output, raised>>
    /\ RunFrame

MainNewPerformanceAnalyzer ==
    /\ pc = "PerformanceAnalyzer"
    /\ StoreResults(PerformanceAnalyzerNew(
            SelfResults(accessibility, performance, security, usability,
                        results)))
    /\ analyzers' = analyzers \cup {"performance_analyzer"}
    /\ pc' = "SecurityAnalyzer"
    /\ UNCHANGED <<response, soup, network, output, raised>>
    /\ RunFrame

MainNewSecurityAnalyzer ==
    /\ pc = "SecurityAnalyzer"
    /\ StoreResults(SecurityAnalyzerNew(
            SelfResults(accessibility, performance, security, usability,
                        results)))
    /\ analyzers' = analyzers \cup {"security_analyzer"}
    /\ pc' = "UsabilityAnalyzer"
    /\ UNCHANGED <<response, soup, network, output, raised>>
    /\ RunFrame

MainNewUsabilityAnalyzer ==
    /\ pc = "UsabilityAnalyzer"
    /\ StoreResults(UsabilityAnalyzerNew(
            SelfResults(accessibility, performance, security, usability,
                        results)))
    /\ analyzers' = analyzers \cup {"usability_analyzer"}
    /\ pc' = "ReportGenerator"
    /\ UNCHANGED <<response, soup, network, output, raised>>
    /\ RunFrame

\* ReportGenerator(self.results): keeps a reference to the result
MainNewReportGenerator ==
    /\ pc = "ReportGenerator"
    /\ analyzers' = analyzers \cup {"report_generator"}
    /\ pc' = "_run_analysis"
    /\ UNCHANGED <<response, soup, security, accessibility, performance,
                   usability, results, network, output, raised>>
    /\ RunFrame

\* what a step that only passes control leaves alone
ControlFrame ==
    UNCHANGED <<url, response, tls, soup, security, accessibility,
                performance, usability, results, fetch, dns, analyzers,
                network, output, raised, headings_arg, hierarchy_ret,
                colors_arg, ratio_ret>>

\* _run_analysis calls accessibility_analyzer.analyze()
RunAccessibilityAnalyzer ==
    /\ pc = "_run_analysis"
    /\ pc' = "check_semantic_structure"
    /\ ControlFrame

\* it returned; performance_analyzer.analyze()
RunPerformanceAnalyzer ==
    /\ pc = "accessibility_done"
    /\ pc' = "check_loading_performance"
    /\ ControlFrame

\* it returned; security_analyzer.analyze()
RunSecurityAnalyzer ==
    /\ pc = "performance_done"
    /\ pc' = "check_security_headers"
    /\ ControlFrame

\* it returned; usability_analyzer.analyze()
RunUsabilityAnalyzer ==
    /\ pc = "security_done"
    /\ pc' = "check_navigation"
    /\ ControlFrame

\* it returned, and so does _run_analysis
RunAnalysisReturns ==
    /\ pc = "usability_done"
    /\ pc' = "_calculate_scores"
    /\ ControlFrame

\* PerformanceAnalyzer.analyze, one action per step
PerformanceFrame ==
    UNCHANGED <<url, response, tls, soup, security, accessibility,
                headings_arg, hierarchy_ret, usability, results, fetch, dns,
                analyzers, output, raised, colors_arg, ratio_ret>>

\* check_dns_lookup_time calls socket.gethostbyname
PerfCheckLoadingPerformance ==
    /\ pc = "check_loading_performance"
    /\ network' =
            Append(network, [op |-> "dns", by |-> "PerformanceAnalyzer"])
    /\ performance' = CheckLoadingPerformance(performance, response, dns)
    /\ pc' = "analyze_resources"
    /\ PerformanceFrame

PerfAnalyzeResources ==
    /\ pc = "analyze_resources"
    /\ performance' = AnalyzeResources(performance, soup)
    /\ pc' = "analyze_seo"
    /\ UNCHANGED network
    /\ PerformanceFrame

PerfAnalyzeSeo ==
    /\ pc = "analyze_seo"
    /\ performance' = AnalyzeSeo(performance, soup, url)
    /\ pc' = "analyze_mobile_optimization"
    /\ UNCHANGED network
    /\ PerformanceFrame

PerfAnalyzeMobileOptimization ==
    /\ pc = "analyze_mobile_optimization"
    /\ performance' = AnalyzeMobileOptimization(performance, soup)
    /\ pc' = "analyze_technical_aspects"
    /\ UNCHANGED network
    /\ PerformanceFrame

PerfAnalyzeTechnicalAspects ==
    /\ pc = "analyze_technical_aspects"
    /\ performance' = AnalyzeTechnicalAspects(performance, soup)
    /\ pc' = "performance_done"
    /\ UNCHANGED network
    /\ PerformanceFrame

\* UsabilityAnalyzer.analyze, one action per step
UsabilityFrame ==
    UNCHANGED <<url, response, tls, soup, security, accessibility,
                headings_arg, hierarchy_ret, performance, results, fetch, dns,
                analyzers, network, output, colors_arg, ratio_ret>>

\* a check_navigation whose ValueError is recorded while the run goes on
UsabCheckNavigation_SwallowsError ==
    /\ pc = "check_navigation"
    /\ IF NavigationRaises(soup)
       THEN /\ raised' = "ValueError"
            /\ usability' = Put(usability, "navigation", <<>>)
       ELSE /\ usability' = CheckNavigation(usability, soup)
            /\ UNCHANGED raised
    /\ pc' = "check_content_usability"
    /\ UsabilityFrame

\* the ValueError of urlparse leaves check_navigation, analyze and
\* _run_analysis, and is raised again by WebsiteAnalyzer.analyze
UsabCheckNavigation ==
    /\ pc = "check_navigation"
    /\ IF NavigationRaises(soup)
       THEN /\ raised' = "ValueError"
            /\ pc' = "raised"
            /\ UNCHANGED usability
       ELSE /\ usability' = CheckNavigation(usability, soup)
            /\ pc' = "check_content_usability"
            /\ UNCHANGED raised
    /\ UsabilityFrame

UsabCheckContentUsability ==
    /\ pc = "check_content_usability"
    /\ usability' = CheckContentUsability(usability, soup)
    /\ pc' = "check_readability"
    /\ UNCHANGED raised
    /\ UsabilityFrame

UsabCheckReadability ==
    /\ pc = "check_readability"
    /\ usability' = CheckReadability(usability, soup)
    /\ pc' = "check_mobile_usability"
    /\ UNCHANGED raised
    /\ UsabilityFrame

UsabCheckMobileUsability ==
    /\ pc = "check_mobile_usability"
    /\ usability' = CheckMobileUsability(usability, soup)
    /\ pc' = "usability_done"
    /\ UNCHANGED raised
    /\ UsabilityFrame

\* _calculate_scores: self.results["scores"] = scores
MainCalculateScores ==
    /\ pc = "_calculate_scores"
    /\ results' = Put(results, "scores",
            CalculateScores(SelfResults(accessibility, performance, security,
                                        usability, results)))
    /\ pc' = "print_summary_report"
    /\ UNCHANGED <<response, soup, security, accessibility, performance,
                   usability, analyzers, network, output, raised>>
    /\ RunFrame

\* print_summary_report: the report generator prints a projection of the
\* result
MainPrintSummaryReport ==
    /\ pc = "print_summary_report"
    /\ output' = Append(output, "summary")
    /\ pc' = "save_report"
    /\ UNCHANGED <<response, soup, security, accessibility, performance,
                   usability, results, analyzers, network, raised>>
    /\ RunFrame

\* save_report: the report generator saves the JSON and the text report
MainSaveReport ==
    /\ pc = "save_report"
    /\ output' = output \o <<"json", "text">>
    /\ pc' = "returned"
    /\ UNCHANGED <<response, soup, security, accessibility, performance,
                   usability, results, analyzers, network, raised>>
    /\ RunFrame

\* WebsiteAnalyzer(url).analyze()
InitAnalyze ==
    /\ \E input \in AnalyzeInputs :
        /\ url = input.url
        /\ fetch = input.fetch
        /\ dns = input.dns
        /\ tls = input.tls
    /\ response = NoneV
    /\ soup = NoneV
    /\ accessibility = <<>>
    /\ performance = PerformanceInit
    /\ security = <<>>
    /\ usability = <<>>
    /\ results = ResultsInit
    /\ analyzers = {}
    /\ network = <<>>
    /\ output = <<>>
    /\ raised = NoneV
    /\ headings_arg = <<>>
    /\ hierarchy_ret = <<>>
    /\ NoContrastCall
    /\ pc = "get_website"

NextAnalyze ==
    \/ MainGetWebsite
    \/ MainNewAccessibilityAnalyzer
    \/ MainNewPerformanceAnalyzer
    \/ MainNewSecurityAnalyzer
    \/ MainNewUsabilityAnalyzer
    \/ MainNewReportGenerator
    \/ RunAccessibilityAnalyzer
    \/ NextAccessibility
    \/ RunPerformanceAnalyzer
    \/ PerfCheckLoadingPerformance
    \/ PerfAnalyzeResources
    \/ PerfAnalyzeSeo
    \/ PerfAnalyzeMobileOptimization
    \/ PerfAnalyzeTechnicalAspects
    \/ RunSecurityAnalyzer
    \/ NextSecurity
    \/ RunUsabilityAnalyzer
    \/ UsabCheckNavigation
    \/ UsabCheckContentUsability
    \/ UsabCheckReadability
    \/ UsabCheckMobileUsability
    \/ RunAnalysisReturns
    \/ MainCalculateScores
    \/ MainPrintSummaryReport
    \/ MainSaveReport

SpecAnalyze == InitAnalyze /\ [][NextAnalyze]_vars

\* _calculate_scores on its own, over any result
InitAggregate ==
    /\ \E input \in AggregateInputs :
        /\ performance = [PerformanceInit EXCEPT !.loading = input.loading]
        /\ accessibility = input.accessibility
        /\ security = input.security
    /\ usability = <<>>
    /\ results = ResultsInit
    /\ url = "http"
    /\ response = [headers |-> <<>>]
    /\ tls = CertValid
    /\ soup = BaseSoup
    /\ fetch = [ok |-> FALSE, error |-> "ConnectionError"]
    /\ dns = [ok |-> FALSE, time |-> 0]
    /\ analyzers = {}
    /\ network = <<>>
    /\ output = <<>>
    /\ raised = NoneV
    /\ headings_arg = <<>>
    /\ hierarchy_ret = <<>>
    /\ NoContrastCall
    /\ pc = "_calculate_scores"

SpecAggregate == InitAggregate /\ [][MainCalculateScores]_vars

-----------------------------------------------------------------------------
(* calculate_contrast_ratio called directly *)

CallCalculateContrastRatio ==
    /\ pc = "calculate_contrast_ratio"
    /\ ratio_ret' = CalculateContrastRatio(colors_arg[1], colors_arg[2])
    /\ pc' = "contrast_returned"
    /\ UNCHANGED <<url, response, tls, soup, security, accessibility,
                   headings_arg, hierarchy_ret, performance, usability,
                   results, fetch, dns, analyzers, network, output, raised,
                   colors_arg>>

InitContrast ==
    /\ colors_arg \in ColorStrings \X ColorStrings
    /\ ratio_ret = [raised |-> NoneV, ratio |-> <<1, 1>>]
    /\ url = "http"
    /\ response = [headers |-> <<>>]
    /\ tls = CertValid
    /\ soup = BaseSoup
    /\ security = <<>>
    /\ accessibility = <<>>
    /\ headings_arg = <<>>
    /\ hierarchy_ret = <<>>
    /\ NoRun
    /\ pc = "calculate_contrast_ratio"

SpecContrast == InitContrast /\ [][CallCalculateContrastRatio]_vars

-----------------------------------------------------------------------------
(* Properties of calculate_security_score *)

ScoreWritten == pc = "security_done"

\* sum of the points of the deductions that were applied
RECURSIVE TotalPoints(_)
TotalPoints(deductions) ==
    IF deductions = <<>> THEN 0
    ELSE Head(deductions).points + TotalPoints(Tail(deductions))

\* C1: for every combination of findings the stored security.score is an
\* integer in [0,100]; it is never below 0, also for an http-only page with
\* none of the security headers present.
C1_ScoreInRange ==
    ScoreWritten => security.score \in 0..100

\* C1 witness: the score was written for an http-only page with all seven
\* headers missing.
C1_Witness ==
    /\ ScoreWritten
    /\ ~security.https_enabled
    /\ security.missing_security_headers = Len(SecurityHeaderNames)
    /\ security.score = 0

\* the minimal document served over plain HTTP without any security header
MinimalHttpPage ==
    /\ ScoreWritten
    /\ soup = BaseSoup
    /\ url = "http"
    /\ response.headers = <<>>

\* C2 (as stated): the minimal document over plain HTTP with no security
\* header yields https_enabled == false and security.score == 50.
C2_Original ==
    MinimalHttpPage => (~security.https_enabled /\ security.score = 50)

\* C2 (amended): the minimal document over plain HTTP with no security
\* header yields https_enabled == false and security.score == 0: the capped
\* header deduction (40), the no-HTTPS deduction (50) and the deduction for
\* the one ssl issue "HTTPS not enabled" (10) add up to 100.
C2_MinimalHttpScoreZero ==
    MinimalHttpPage =>
        /\ ~security.https_enabled
        /\ security.score = 0
        /\ security.deductions =
            <<[what |-> "Missing security headers", points |-> 40],
              [what |-> "No HTTPS", points |-> 50],
              [what |-> "SSL issues", points |-> 10]>>

\* C2 witness: the analysis of the minimal http page has finished.
C2_Witness ==
    MinimalHttpPage /\ security.ssl_issues = <<"HTTPS not enabled">>

\* C3: the score is max(0, 100 - min(10*missing, 40) - (50 if not https)
\* - min(10*|ssl_issues|, 30) - min(5*|xss vectors|, 25)
\* - min(3*mixed_content.count, 15) - min(10*|insecure_forms|, 30)); every
\* category is capped on its own.
C3_ScoreFormula ==
    ScoreWritten =>
        security.score =
            Max(0, 100
                - Min(10 * security.missing_security_headers, 40)
                - (IF ~security.https_enabled THEN 50 ELSE 0)
                - Min(10 * Len(security.ssl_issues), 30)
                - Min(5 * Len(security.potential_xss_vectors), 25)
                - Min(3 * (IF "count" \in DOMAIN security.mixed_content
                           THEN security.mixed_content.count ELSE 0), 15)
                - Min(10 * Len(security.forms.insecure_forms), 30))

\* C3 witness: a positive score although the headers, the XSS vectors and
\* the mixed content each exceed their cap.
C3_Witness ==
    /\ ScoreWritten
    /\ security.score > 0
    /\ 10 * security.missing_security_headers > 40
    /\ 5 * Len(security.potential_xss_vectors) > 25
    /\ "count" \in DOMAIN security.mixed_content
    /\ 3 * security.mixed_content.count > 15

\* C4: the stored rating is the band of the stored (floored) score:
\* Excellent iff >= 90, Good iff 75..89, Fair iff 50..74, Poor iff 25..49,
\* Very Poor iff < 25, also when the deductions add up to more than 100.
C4_RatingIsBandOfScore ==
    ScoreWritten =>
        /\ (security.rating = "Excellent") <=> (security.score >= 90)
        /\ (security.rating = "Good")
                <=> (75 <= security.score /\ security.score < 90)
        /\ (security.rating = "Fair")
                <=> (50 <= security.score /\ security.score < 75)
        /\ (security.rating = "Poor")
                <=> (25 <= security.score /\ security.score < 50)
        /\ (security.rating = "Very Poor") <=> (security.score < 25)

\* C4 witness: the deductions add up to more than 100, the score was floored
\* to 0 and the rating is Very Poor.
C4_Witness ==
    /\ ScoreWritten
    /\ TotalPoints(security.deductions) > 100
    /\ security.score = 0
    /\ security.rating = "Very Poor"

-----------------------------------------------------------------------------
(* Properties of check_heading_hierarchy *)

HierarchyReturned == pc = "hierarchy_returned"

ArgLevels == {headings_arg[i][1] : i \in 1..Len(headings_arg)}

ArgHasSkip ==
    \E i \in 1..(Len(headings_arg) - 1) :
        headings_arg[i + 1][1] - headings_arg[i][1] > 1

\* C5: check_heading_hierarchy returns true iff the list is non-empty and
\* (it holds no level-1 heading or some consecutive pair rises by more than
\* one level); false for the empty list; equal, falling and +1 steps are
\* never flagged when an H1 exists.  Both copies of the function agree.
C5_HeadingHierarchyRule ==
    HierarchyReturned =>
        /\ hierarchy_ret.helpers <=>
            (headings_arg # <<>> /\ (1 \notin ArgLevels \/ ArgHasSkip))
        /\ hierarchy_ret.legacy <=>
            (headings_arg # <<>> /\ (1 \notin ArgLevels \/ ArgHasSkip))

\* C5 witness: a list with an H1, a falling step and a +1 step was checked
\* and not flagged.
C5_Witness ==
    /\ HierarchyReturned
    /\ Len(headings_arg) = 3
    /\ headings_arg[1][1] = 2 /\ headings_arg[2][1] = 1
    /\ headings_arg[3][1] = 2
    /\ ~hierarchy_ret.helpers

-----------------------------------------------------------------------------
(* Properties of AccessibilityAnalyzer *)

SemanticStructureChecked ==
    "heading_hierarchy_issues" \in DOMAIN accessibility["semantic_structure"]

ScreenReaderChecked == "images" \in DOMAIN accessibility["screen_reader"]

FormsChecked == "inputs_with_labels" \in DOMAIN accessibility["forms"]

WcagChecked == pc = "accessibility_done"

\* the headings of the document, in document order, hold a consecutive pair
\* that rises by more than one level
DocumentOrderHasSkip ==
    \E i \in 1..(Len(soup.headings) - 1) :
        soup.headings[i + 1][1] - soup.headings[i][1] > 1

\* C6: check_semantic_structure judges the headings in document order: when
\* a consecutive pair of the document rises by more than one level (as in
\* H1, H3, H2), heading_hierarchy_issues is true.
C6_DocumentOrder ==
    (SemanticStructureChecked /\ DocumentOrderHasSkip) =>
        accessibility["semantic_structure"]["heading_hierarchy_issues"]

W(section, key) == accessibility["wcag_compliance"][section][key]

Bit(b) == IF b THEN 1 ELSE 0

\* the three Level-A findings other than the form labels, as stored
OtherLevelAPoints ==
    Bit(accessibility["semantic_structure"]["lang_attribute"] # "Missing")
    + Bit(accessibility["screen_reader"]["images"].without_alt = 0)
    + Bit(~accessibility["semantic_structure"]["heading_hierarchy_issues"])

\* the form-label check as check_wcag_compliance reads it from the findings
FormFindingSatisfied ==
    /\ accessibility["forms"]["total_inputs"] > 0
    /\ accessibility["forms"]["inputs_with_labels"]
            = accessibility["forms"]["total_inputs"]

\* C7: level_a.score = 6 + the number of the four Level-A checks satisfied,
\* of 10; level_aa.score = level_a.score + [no contrast issues]
\* + [no tabindex issues] + 2, of 15; passed iff score >= 80% of the total
\* (A: score >= 8, AA: score >= 12).
C7_WcagScores ==
    WcagChecked =>
        /\ W("level_a", "score")
                = 6 + OtherLevelAPoints + Bit(FormFindingSatisfied)
        /\ W("level_a", "total") = 10
        /\ W("level_aa", "score")
                = W("level_a", "score")
                  + Bit(~accessibility["color_contrast"]["has_issues"])
                  + Bit(accessibility["keyboard_navigation"]
                            ["tabindex_issues"] = <<>>)
                  + 2
        /\ W("level_aa", "total") = 15
        /\ W("level_a", "passed") <=> (W("level_a", "score") >= 8)
        /\ W("level_aa", "passed") <=> (W("level_aa", "score") >= 12)

\* C7 witness: all four Level-A checks and both Level-AA checks are
\* satisfied: 10 of 10 and 14 of 15, both passed.
C7_Witness ==
    /\ WcagChecked
    /\ W("level_a", "score") = 10 /\ W("level_a", "passed")
    /\ W("level_aa", "score") = 14 /\ W("level_aa", "passed")

\* a second reachable case of C7: Level A passed, Level AA failed
C7_WitnessAAFails ==
    /\ WcagChecked
    /\ W("level_a", "passed") /\ ~W("level_aa", "passed")

\* field i of the document has a label association
HasLabelAssociation(i) ==
    \/ Truthy(soup.fields[i].id) /\ soup.fields[i].id \in soup.labels_for
    \/ Truthy(soup.fields[i].aria_label)
    \/ Truthy(soup.fields[i].aria_labelledby)

FormPointAwarded ==
    W("level_a", "score") - 6 - OtherLevelAPoints = 1

\* C8: the Level-A form-label point is awarded exactly when at least one
\* input/select/textarea exists and every field has a label association
\* (a matching <label for=id>, or aria-label / aria-labelledby).
C8_FormLabelPoint ==
    WcagChecked =>
        (FormPointAwarded <=>
            (soup.fields # <<>>
             /\ \A i \in 1..Len(soup.fields) : HasLabelAssociation(i)))

\* C9: after check_forms, inputs_with_labels = (fields whose id is matched
\* by a <label for>) + (fields carrying aria-label or aria-labelledby); a
\* field satisfying both counts twice, so 0 <= inputs_with_labels
\* <= 2 * total_inputs.
C9_InputsWithLabels ==
    FormsChecked =>
        LET forms == accessibility["forms"]
            ByLabel == {i \in 1..Len(soup.fields) :
                            Truthy(soup.fields[i].id)
                            /\ soup.fields[i].id \in soup.labels_for}
            ByAria == {i \in 1..Len(soup.fields) :
                            Truthy(soup.fields[i].aria_label)
                            \/ Truthy(soup.fields[i].aria_labelledby)}
        IN  /\ forms["total_inputs"] = Len(soup.fields)
            /\ forms["inputs_with_labels"]
                    = Cardinality(ByLabel) + Cardinality(ByAria)
            /\ 0 <= forms["inputs_with_labels"]
            /\ forms["inputs_with_labels"] <= 2 * forms["total_inputs"]

\* C9 witness: inputs_with_labels exceeds total_inputs.
C9_Witness ==
    /\ FormsChecked
    /\ accessibility["forms"]["total_inputs"] > 0
    /\ accessibility["forms"]["inputs_with_labels"]
            > accessibility["forms"]["total_inputs"]

\* C10: for every set of images, with_alt + without_alt = total,
\* with_empty_alt <= with_alt and decorative_properly_marked
\* <= with_empty_alt.
C10_ImageCounts ==
    ScreenReaderChecked =>
        LET images == accessibility["screen_reader"]["images"]
        IN  /\ images.total = Len(soup.images)
            /\ images.with_alt + images.without_alt = images.total
            /\ images.with_empty_alt <= images.with_alt
            /\ images.decorative_properly_marked <= images.with_empty_alt

\* C10 witness: an image with an empty alt that is not marked decorative and
\* an image without alt were counted.
C10_Witness ==
    /\ ScreenReaderChecked
    /\ LET images == accessibility["screen_reader"]["images"]
       IN  /\ images.total = 2
           /\ images.with_empty_alt = 1
           /\ images.without_alt = 1
           /\ images.decorative_properly_marked = 0

-----------------------------------------------------------------------------
(* Properties of _calculate_scores *)

ScoresWritten == "scores" \in DOMAIN results

\* the load time (hundredths of a second) and the size (thousandths of a
\* megabyte) the aggregator finds, 0 when the key is missing
StoredLoadTime == Get(performance["loading"], "total_load_time", 0)

StoredSizeMb == Get(performance["loading"], "response_size_mb", 0)

\* the one deduction of {30, 15, 5, 0} whose band holds the load time
LoadDeduction ==
    CHOOSE d \in {0, 5, 15, 30} :
        /\ d = 30 <=> StoredLoadTime > 300
        /\ d = 15 <=> (StoredLoadTime > 200 /\ StoredLoadTime <= 300)
        /\ d = 5 <=> (StoredLoadTime > 100 /\ StoredLoadTime <= 200)

\* the one deduction of {20, 10, 0} whose band holds the size
SizeDeduction ==
    CHOOSE d \in {0, 10, 20} :
        /\ d = 20 <=> StoredSizeMb > 2000
        /\ d = 10 <=> (StoredSizeMb > 1000 /\ StoredSizeMb <= 2000)

\* C11: scores.performance is max(0, 100 - L - S), where L is the single
\* load-time deduction (30 above 3 s, 15 above 2 s, 5 above 1 s, else 0) and
\* S the single size deduction (20 above 2 MB, 10 above 1 MB, else 0); the
\* deductions of one kind never add up and a missing value counts as 0.
C11_PerformanceScore ==
    ScoresWritten =>
        results["scores"].performance
            = Max(0, 100 - LoadDeduction - SizeDeduction)

\* a slow and large page: both top thresholds are passed
C11_Witness ==
    /\ ScoresWritten
    /\ StoredLoadTime > 300
    /\ StoredSizeMb > 2000
    /\ results["scores"].performance = 50

\* a result without load time and size scores 100
C11_WitnessMissing ==
    /\ ScoresWritten
    /\ DOMAIN performance["loading"] = {}
    /\ results["scores"].performance = 100

\* C12: in the core orchestrator scores.overall is 0.4 performance + 0.4
\* accessibility + 0.2 security rounded to one decimal, accessibility being
\* the Level-AA percentage and security being security.score, and each of
\* the four scores lies in [0, 100].  (accessibility and overall in tenths.)
C12_OverallScore ==
    ScoresWritten =>
        LET scores == results["scores"]
            hundredths == 40 * scores.performance + 4 * scores.accessibility
                            + 20 * scores.security
        IN  /\ scores.accessibility
                = accessibility["wcag_compliance"]["level_aa"].percentage
            /\ scores.security = security["score"]
            /\ 10 * scores.overall - hundredths \in (-5)..5
            /\ scores.performance \in 0..100
            /\ scores.accessibility \in 0..1000
            /\ scores.security \in 0..100
            /\ scores.overall \in 0..1000

\* a run whose three category scores differ from one another
C12_Witness ==
    /\ ScoresWritten
    /\ pc = "returned"
    /\ results["scores"].performance = 50
    /\ results["scores"].security > 0
    /\ results["scores"].accessibility # 10 * results["scores"].security

-----------------------------------------------------------------------------
(* Properties of WebsiteAnalyzer.analyze *)

\* the positions from which the next step is one of AccessibilityAnalyzer:
\* its constructor or a check of its analyze()
AccessibilityPcs ==
    {"AccessibilityAnalyzer", "check_semantic_structure",
     "check_keyboard_navigation", "check_screen_reader_support",
     "check_forms", "check_multimedia", "check_text_content",
     "check_color_contrast", "check_wcag_compliance"}

PerformancePcs ==
    {"PerformanceAnalyzer", "check_loading_performance", "analyze_resources",
     "analyze_seo", "analyze_mobile_optimization",
     "analyze_technical_aspects"}

SecurityPcs ==
    {"SecurityAnalyzer", "check_security_headers", "check_ssl_tls",
     "check_content_security", "check_mixed_content", "check_form_security",
     "calculate_security_score"}

UsabilityPcs ==
    {"UsabilityAnalyzer", "check_navigation", "check_content_usability",
     "check_readability", "check_mobile_usability"}

\* C13: a step of an analyzer (constructor or analyze()) changes only that
\* analyzer's namespace of the shared result: url, date_analyzed and the
\* other namespaces stay as they were, and only the aggregator step writes
\* results.scores.
C13_OwnNamespaceOnly ==
    [][/\ pc \in AccessibilityPcs =>
            UNCHANGED <<performance, security, usability, results>>
       /\ pc \in PerformancePcs =>
            UNCHANGED <<accessibility, security, usability, results>>
       /\ pc \in SecurityPcs =>
            UNCHANGED <<accessibility, performance, usability, results>>
       /\ pc \in UsabilityPcs =>
            UNCHANGED <<accessibility, performance, security, results>>
       /\ pc # "_calculate_scores" =>
            /\ ScoresWritten' <=> ScoresWritten
            /\ ScoresWritten => results'["scores"] = results["scores"]]_vars

\* the four analyzers have run and each namespace holds its findings
C13_Witness ==
    /\ pc = "usability_done"
    /\ "level_aa" \in DOMAIN accessibility["wcag_compliance"]
    /\ "response_size_mb" \in DOMAIN performance["loading"]
    /\ "score" \in DOMAIN security
    /\ DOMAIN usability = {"navigation", "content", "readability", "mobile"}
    /\ results = ResultsInit

\* the four analyzers have returned from analyze()
AnalyzersFinished ==
    /\ pc \in {"_calculate_scores", "print_summary_report", "save_report",
               "returned"}
    /\ "level_aa" \in DOMAIN accessibility["wcag_compliance"]
    /\ "technical" \in DOMAIN performance
    /\ DOMAIN performance["technical"] # {}
    /\ "score" \in DOMAIN security
    /\ "mobile" \in DOMAIN usability

\* C14: in a run of WebsiteAnalyzer.analyze results.scores is written once:
\* only after the four analyzers have finished and before any report is
\* printed or saved; a run that returns has written it; once written,
\* neither it nor a per-category namespace changes again; and a run in which
\* an analyzer raised never writes it.
C14_ScoresWrittenOnce ==
    /\ [](/\ ScoresWritten => AnalyzersFinished
          /\ output # <<>> => ScoresWritten
          /\ pc = "returned" => ScoresWritten
          /\ raised # NoneV => ~ScoresWritten /\ pc = "raised")
    /\ [][/\ ScoresWritten =>
                /\ ScoresWritten'
                /\ results'["scores"] = results["scores"]
                /\ UNCHANGED <<accessibility, performance, security,
                               usability>>
          /\ raised # NoneV => UNCHANGED results]_vars

\* a run that returned: the scores are there and the reports came after
C14_Witness ==
    /\ pc = "returned"
    /\ ScoresWritten
    /\ output = <<"summary", "json", "text">>
    /\ raised = NoneV

\* a run whose last analyzer raised after the other three had finished
C14_WitnessRaised ==
    /\ pc = "raised"
    /\ raised = "ValueError"
    /\ "score" \in DOMAIN security
    /\ ~ScoresWritten
    /\ output = <<>>

\* C15: when the page fetch of get_website fails, analyze ends with that
\* error propagated: no analyzer is constructed or run, results.scores is
\* not written and no report is printed or saved.
C15_FetchFailureIsFatal ==
    ~fetch.ok =>
        /\ pc \in {"get_website", "raised"}
        /\ pc = "raised" => raised = fetch.error
        /\ analyzers = {}
        /\ accessibility = <<>>
        /\ performance = PerformanceInit
        /\ security = <<>>
        /\ usability = <<>>
        /\ ~ScoresWritten
        /\ output = <<>>

\* the run after the failed fetch
C15_Witness ==
    /\ ~fetch.ok
    /\ pc = "raised"
    /\ raised = "ConnectionError"
    /\ network = <<[op |-> "http_get", by |-> "WebsiteAnalyzer"]>>

\* C16: every network operation of a run (HTTP GET, DNS resolution, TLS
\* handshake) is performed by the orchestrator before the first analyzer
\* starts; no step of an analyzer's analyze() performs one.
C16_NetworkOnlyInOrchestrator ==
    /\ \A i \in 1..Len(network) : network[i].by = "WebsiteAnalyzer"
    /\ analyzers = {} \/ \E i \in 1..Len(network) : network[i].op = "http_get"

-----------------------------------------------------------------------------
(* Properties of check_ssl_tls and check_loading_performance *)

SslTlsChecked == "https_enabled" \in DOMAIN security

\* C17: on an https URL a failure of the TLS connection or of the
\* certificate parsing in check_ssl_tls is not propagated: ssl_error is set,
\* ssl_issues holds exactly one entry, https_enabled stays true, and the
\* remaining checks and calculate_security_score run, so that security.score
\* is written.
C17_SslErrorIsRecorded ==
    (url = "https" /\ ~tls.ok /\ SslTlsChecked) =>
        /\ "ssl_error" \in DOMAIN security
        /\ Len(security["ssl_issues"]) = 1
        /\ security["https_enabled"]
        /\ raised = NoneV
        /\ pc \in {"check_content_security", "check_mixed_content",
                   "check_form_security", "calculate_security_score",
                   "security_done"}
        /\ pc = "security_done" =>
                /\ ScoreWritten
                /\ "forms" \in DOMAIN security
                /\ "mixed_content" \in DOMAIN security
                /\ "xss_risk" \in DOMAIN security

\* the analysis of an https page whose TLS connection failed has finished
C17_Witness ==
    /\ url = "https"
    /\ ~tls.ok
    /\ pc = "security_done"
    /\ "ssl_error" \in DOMAIN security
    /\ ScoreWritten

LoadingChecked == "status_code" \in DOMAIN performance["loading"]

\* the keys get_website and check_loading_performance write
LoadingKeys ==
    {"total_load_time", "status_code", "response_size_bytes",
     "response_size_kb", "response_size_mb", "dns_lookup_time",
     "response_time"}

\* C18: when the DNS timing lookup fails inside check_loading_performance
\* the analysis goes on and an error field is recorded in
\* performance.loading for the failed sub-check; response_time is derived
\* (total_load_time - DNS time) only when both values are known.
C18_DnsFailureRecorded ==
    LoadingChecked =>
        LET loading == performance["loading"]
        IN  /\ ~dns.ok =>
                /\ raised = NoneV \/ pc = "raised"
                /\ pc # "check_loading_performance"
                /\ \E key \in DOMAIN loading : key \notin LoadingKeys
            /\ "response_time" \in DOMAIN loading =>
                /\ dns.ok
                /\ "total_load_time" \in DOMAIN loading
                /\ 1000 * loading["response_time"]
                    - (1000 * loading["total_load_time"] - dns.time)
                        \in (-500)..500

-----------------------------------------------------------------------------
(* Properties of calculate_contrast_ratio *)

ContrastReturned == pc = "contrast_returned"

\* a well-formed #rrggbb or rgb(r,g,b) value
WellFormed(color) ==
    \/ /\ color.head = "#"
       /\ Len(color.digits) = 6
       /\ \A i \in 1..6 : color.digits[i] \in HexDigits
    \/ /\ color.head = "rgb"
       /\ Len(color.groups) = 3

Black == [head |-> "#", digits |-> <<"0", "0", "0", "0", "0", "0">>]

\* the colour a string stands for when every other string counts as black
OrBlack(color) == IF WellFormed(color) THEN color ELSE Black

\* C19: calculate_contrast_ratio never raises: a string that is no
\* well-formed #rrggbb or rgb(r,g,b) value (short hex such as #fff and "#"
\* followed by non-hex characters included) resolves to black and a ratio is
\* returned.
C19_NeverRaises ==
    ContrastReturned =>
        /\ ratio_ret.raised = NoneV
        /\ ratio_ret = CalculateContrastRatio(OrBlack(colors_arg[1]),
                                              OrBlack(colors_arg[2]))

\* C20: for well-formed #rrggbb or rgb(r,g,b) colours the ratio is the same
\* in both orders of the arguments, it is 1 for a colour and itself, and it
\* is never below 1 (the lighter luminance is the numerator).
C20_RatioSymmetric ==
    (/\ ContrastReturned
     /\ WellFormed(colors_arg[1])
     /\ WellFormed(colors_arg[2])) =>
        /\ ratio_ret.raised = NoneV
        /\ ratio_ret = CalculateContrastRatio(colors_arg[2], colors_arg[1])
        /\ colors_arg[1] = colors_arg[2] => ratio_ret.ratio[1] = ratio_ret.ratio[2]
        /\ ratio_ret.ratio[1] >= ratio_ret.ratio[2]

\* a darker colour given first, a lighter one second: the ratio is above 1
C20_Witness ==
    /\ ContrastReturned
    /\ colors_arg[1] = [head |-> "#", digits |-> <<"7", "7", "7", "7", "7", "7">>]
    /\ colors_arg[2] = [head |-> "rgb", groups |-> <<255, 255, 255>>]
    /\ ratio_ret.ratio[1] > ratio_ret.ratio[2]


-----------------------------------------------------------------------------
(* Properties of check_form_security, check_mixed_content and              *)
(* check_content_security                                                  *)

FormSecurityChecked == "forms" \in DOMAIN security

\* the form-security checks a form fails: HTTP action or no action on a page
\* that is not https, no hidden CSRF-named input, a password field with
\* autocomplete=off neither on itself nor on the form
FailedChecks(form) ==
    (IF form.action = "http"
     THEN {"Form submits to HTTP URL"}
     ELSE IF form.action = "" /\ url # "https"
     THEN {"Form on non-HTTPS page without specific action"}
     ELSE {})
    \cup (IF form.csrf THEN {} ELSE {"No CSRF protection detected"})
    \cup (IF ~form.autocomplete_off
             /\ \E k \in 1..Len(form.passwords) : ~form.passwords[k]
          THEN {"Password fields without autocomplete=off"}
          ELSE {})

FailsSomeCheck(form) == FailedChecks(form) # {}

\* C22: every form that fails at least one of the three form-security checks
\* appears in security.forms.insecure_forms exactly once, in document order,
\* with a non-empty issues list naming exactly the failed checks; a form that
\* passes all three is not listed; a form without a hidden CSRF-named input
\* is listed with the issue "No CSRF protection detected".
C22_InsecureFormsListed ==
    FormSecurityChecked =>
        LET listed == security["forms"].insecure_forms
            failing == SelectSeq(soup.forms, FailsSomeCheck)
        IN  /\ Len(listed) = Len(failing)
            /\ \A k \in 1..Len(listed) :
                /\ listed[k].action = failing[k].action
                /\ listed[k].issues # <<>>
                /\ {listed[k].issues[n] : n \in 1..Len(listed[k].issues)}
                        = FailedChecks(failing[k])
                /\ Len(listed[k].issues) = Cardinality(FailedChecks(failing[k]))
                /\ ~failing[k].csrf =>
                        \E n \in 1..Len(listed[k].issues) :
                            listed[k].issues[n] = "No CSRF protection detected"
            /\ \A i \in 1..Len(soup.forms) :
                ~soup.forms[i].csrf => FailsSomeCheck(soup.forms[i])

\* a document with a form that passes the three checks followed by a form
\* without a CSRF field: only the second is listed
C22_Witness ==
    /\ FormSecurityChecked
    /\ Len(soup.forms) = 2
    /\ ~FailsSomeCheck(soup.forms[1])
    /\ FailedChecks(soup.forms[2]) = {"No CSRF protection detected"}
    /\ Len(security["forms"].insecure_forms) = 1
    /\ security["forms"].insecure_forms[1].issues
            = <<"No CSRF protection detected">>


MixedContentChecked == "mixed_content" \in DOMAIN security

\* the entries of a list of exemplars that belong to one category
InCategory(items, field, value) ==
    Cardinality({i \in 1..Len(items) : items[i][field] = value})

\* C25: on an https page security.mixed_content.items holds at most 3
\* exemplars per category (each of the eight tag/attribute pairs, and the
\* url(http://...) references of the style blocks, whatever the number of
\* <style> blocks), and mixed_content.count is the length of items.
C25_MixedContentCap ==
    (MixedContentChecked /\ url = "https") =>
        LET mixed_content == security["mixed_content"]
        IN  /\ mixed_content.count = Len(mixed_content.items)
            /\ \A p \in 1..Len(MixedPairs) :
                InCategory(mixed_content.items, "tag", MixedPairs[p].tag)
                    <= MixedCap
            /\ InCategory(mixed_content.items, "tag", "style") <= MixedCap

XssChecked == "potential_xss_vectors" \in DOMAIN security

\* C26: check_content_security records at most 5 exemplars per category
\* (each of the six risky event-handler attributes, and the javascript:
\* anchors): the first 5 of the elements the document holds; xss_risk is true
\* iff potential_xss_vectors is non-empty.
C26_XssCap ==
    XssChecked =>
        LET vectors == security["potential_xss_vectors"]
        IN  /\ \A a \in 1..Len(RiskyAttrs) :
                InCategory(vectors, "attribute", RiskyAttrs[a])
                    = Min(soup.handlers[a], XssCap)
            /\ InCategory(vectors, "attribute", "href")
                    = Min(soup.js_links, XssCap)
            /\ Len(vectors) <= XssCap * (Len(RiskyAttrs) + 1)
            /\ security["xss_risk"] = (vectors # <<>>)

\* a document with more javascript: anchors than the cap: 5 are recorded
C26_Witness ==
    /\ XssChecked
    /\ soup.js_links > XssCap
    /\ InCategory(security["potential_xss_vectors"], "attribute", "href")
            = XssCap
    /\ security["xss_risk"]

\* every risky attribute on more elements than the cap: 30 vectors
C26_WitnessAllAttributes ==
    /\ XssChecked
    /\ \A a \in 1..Len(RiskyAttrs) : soup.handlers[a] > XssCap
    /\ Len(security["potential_xss_vectors"]) = XssCap * Len(RiskyAttrs)


-----------------------------------------------------------------------------
(* Order of the checks within SecurityAnalyzer.analyze *)

\* the findings calculate_security_score reads
ScoreFindings ==
    {"headers", "https_enabled", "ssl_issues", "potential_xss_vectors",
     "mixed_content", "forms"}

\* C29: within SecurityAnalyzer.analyze, https_enabled has been written by
\* check_ssl_tls when check_mixed_content and check_form_security read it,
\* and calculate_security_score runs only after the five checks have written
\* their findings: when it starts and when security.score is written,
\* headers, https_enabled, ssl_issues, potential_xss_vectors, mixed_content
\* and forms are all present, and https_enabled is the scheme of the URL.
C29_FindingsBeforeScore ==
    /\ pc \in {"check_mixed_content", "check_form_security"} =>
            /\ "https_enabled" \in DOMAIN security
            /\ security["https_enabled"] = (url = "https")
    /\ pc = "check_form_security" => "mixed_content" \in DOMAIN security
    /\ (pc = "calculate_security_score" \/ "score" \in DOMAIN security) =>
            ScoreFindings \subseteq DOMAIN security
    /\ pc = "security_done" => "score" \in DOMAIN security

\* the score of an https page with mixed content has been written
C29_Witness ==
    /\ pc = "security_done"
    /\ "score" \in DOMAIN security
    /\ security["https_enabled"]
    /\ security["mixed_content"].count > 0
    /\ ScoreFindings \subseteq DOMAIN security


-----------------------------------------------------------------------------
(* Level A and Level AA of check_wcag_compliance *)

\* C28: for every accessibility result, level_aa.passed implies
\* level_a.passed, and level_a.score <= level_aa.score.
C28_AAImpliesA ==
    WcagChecked =>
        /\ W("level_aa", "passed") => W("level_a", "passed")
        /\ W("level_a", "score") <= W("level_aa", "score")

\* Level AA is passed with the lowest Level A score that passes: 8 of 10 and
\* 12 of 15
C28_Witness ==
    /\ WcagChecked
    /\ W("level_a", "score") = 8 /\ W("level_a", "passed")
    /\ W("level_aa", "score") = 12 /\ W("level_aa", "passed")

\* Level A fails by one point with both Level AA checks satisfied: 7 of 10
\* and 11 of 15, neither passed
C28_WitnessBothFail ==
    /\ WcagChecked
    /\ W("level_a", "score") = 7 /\ ~W("level_a", "passed")
    /\ W("level_aa", "score") = 11 /\ ~W("level_aa", "passed")


-----------------------------------------------------------------------------
(* Properties of check_navigation *)

NavigationChecked == "navigation" \in DOMAIN usability

\* the links of the document whose href is one of the three literals
BrokenLiterals ==
    {i \in 1..Len(soup.hrefs) :
        soup.hrefs[i] \in {"#", "javascript:void(0)", "javascript:;"}}

\* C23: in check_navigation a link whose href is exactly "#",
\* "javascript:void(0)" or "javascript:;" is counted in
\* potentially_broken_links, and the +20 'no broken links' component of
\* navigation_clarity_score is awarded iff the document holds no such link
\* (the documents hold no nav, breadcrumb or search element, so the score is
\* that component).
C23_BrokenLinksCounted ==
    NavigationChecked =>
        /\ usability["navigation"].potentially_broken_links
                = Cardinality(BrokenLiterals)
        /\ usability["navigation"].navigation_clarity_score
                = IF BrokenLiterals = {} THEN 20 ELSE 0


-----------------------------------------------------------------------------
(* Properties of check_color_contrast and extract_css_colors *)

ColorContrastChecked == "has_issues" \in DOMAIN accessibility["color_contrast"]

\* the colours extract_css_colors returns for the document
Candidates == ExtractCssColors(CssContent(soup))

\* the background x text pairs calculate_contrast_ratio returns a ratio for
EvaluatedPairs ==
    {pair \in Candidates.background \X Candidates.text :
        ~ParseColorRaises(pair[1]) /\ ~ParseColorRaises(pair[2])}

\* ratio < 4.5
LowContrast(pair) ==
    LET ratio == ContrastRatio(pair[1], pair[2])
    IN  10 * ratio[1] < 45 * ratio[2]

IssuePairs == {pair \in EvaluatedPairs : LowContrast(pair)}

CompliantPairs == {pair \in EvaluatedPairs : ~LowContrast(pair)}

\* a reported list holds min(10, number of pairs) distinct pairs of the set
ReportsPairs(reported, pairs) ==
    /\ Len(reported) = Min(10, Cardinality(pairs))
    /\ \A i \in 1..Len(reported) :
        /\ <<reported[i].background, reported[i].text>> \in pairs
        /\ reported[i].ratio
                = Round2(ContrastRatio(reported[i].background,
                                       reported[i].text))
        /\ \A j \in 1..Len(reported) :
                (reported[i].background = reported[j].background
                 /\ reported[i].text = reported[j].text) => i = j

\* C21: check_color_contrast evaluates every background x text candidate
\* pair; each evaluated pair is an issue (ratio < 4.5) or compliant
\* (ratio >= 4.5), never both; a pair whose evaluation raises is in neither
\* list and the check completes; issues and compliant_pairs hold at most 10
\* entries (the pairs of their class, up to 10); has_issues is true iff an
\* issue pair exists, iff the reported issues list is non-empty.
C21_ContrastPairs ==
    ColorContrastChecked =>
        LET contrast == accessibility["color_contrast"]
        IN  /\ ReportsPairs(contrast["issues"], IssuePairs)
            /\ ReportsPairs(contrast["compliant_pairs"], CompliantPairs)
            /\ Len(contrast["issues"]) <= 10
            /\ Len(contrast["compliant_pairs"]) <= 10
            /\ contrast["has_issues"] = (IssuePairs # {})
            /\ contrast["has_issues"] = (contrast["issues"] # <<>>)

\* twelve pairs of low contrast and three pairs that raise: 10 issues are
\* reported
C21_Witness ==
    /\ ColorContrastChecked
    /\ Cardinality(IssuePairs) = 12
    /\ Cardinality((Candidates.background \X Candidates.text)
                        \ EvaluatedPairs) = 3
    /\ Len(accessibility["color_contrast"]["issues"]) = 10
    /\ accessibility["color_contrast"]["has_issues"]

\* twelve pairs of sufficient contrast: 10 compliant pairs are reported
C21_WitnessCompliant ==
    /\ ColorContrastChecked
    /\ Cardinality(CompliantPairs) = 12
    /\ Len(accessibility["color_contrast"]["compliant_pairs"]) = 10
    /\ ~accessibility["color_contrast"]["has_issues"]


\* the values of a list
Values(list) == {list[i] : i \in 1..Len(list)}

\* C24: none of the three lists extract_css_colors returns (background,
\* text, link) holds the keyword transparent, inherit or initial, and no list
\* holds a value twice; check_color_contrast stores the background and the
\* text list.
C24_NoKeywordsNoDuplicates ==
    ColorContrastChecked =>
        LET background == accessibility["color_contrast"]["background_colors"]
            text == accessibility["color_contrast"]["text_colors"]
            Keywords == {"transparent", "inherit", "initial"}
        IN  /\ Values(background) \cap Keywords = {}
            /\ Values(text) \cap Keywords = {}
            /\ Candidates.link \cap Keywords = {}
            /\ Cardinality(Values(background)) = Len(background)
            /\ Cardinality(Values(text)) = Len(text)

\* the values of the declarations of one property
DeclaredValues(prop) ==
    {d.value : d \in {e \in Values(CssContent(soup)) : e.prop = prop}}

\* C30: the text-colour candidates come only from color declarations, never
\* from background-color declarations: a stylesheet whose only
\* colour-bearing declarations are background-color declarations yields an
\* empty text list, no background x text pair, and has_issues = false.
C30_TextOnlyFromColor ==
    ColorContrastChecked =>
        LET contrast == accessibility["color_contrast"]
        IN  /\ Values(contrast["text_colors"]) \subseteq DeclaredValues("color")
            /\ (\A d \in Values(CssContent(soup)) :
                    d.prop = "background-color") =>
                    /\ contrast["text_colors"] = <<>>
                    /\ contrast["issues"] = <<>>
                    /\ contrast["compliant_pairs"] = <<>>
                    /\ ~contrast["has_issues"]

-----------------------------------------------------------------------------
(* Two runs on the same inputs *)

\* C27: two runs of the four analyzers and the aggregator on identical
\* inputs produce identical result trees (date_analyzed apart), including
\* the exemplars of the capped lists.  Every step but check_color_contrast
\* assigns a function of the inputs and of the results written so far, so
\* two runs agree iff the step of check_color_contrast has the same outcome
\* for every order list(set(...)) can give the colours.
C27_SameInputsSameResults ==
    [][pc = "check_color_contrast" =>
        \A background \in Orderings(Candidates.background),
           text \in Orderings(Candidates.text) :
            accessibility' =
                CheckColorContrast(accessibility, background, text)]_vars

=============================================================================
